---- MODULE Spec2Model ----
(***************************************************************************)
(* A model of lsweb (github.com/hemzaz/lsweb): the download engine of      *)
(* pkg/downloader (sequential and concurrent batches over a shared working *)
(* directory) and the link extractor of pkg/parser.                        *)
(*                                                                         *)
(* Strings that the code takes apart (URLs, hrefs) are sequences of        *)
(* tokens: every "/", ":", "#" is a token of its own and every other token *)
(* is a run of characters containing none of them.  File names are plain   *)
(* strings.                                                                *)
(***************************************************************************)
EXTENDS Integers, Sequences, FiniteSets, TLC

\* ------------------------------------------------------------------ bounds
MaxJobs == 2            \* longest URL list handed to a batch
BodyLen == 2            \* write calls io.Copy needs for one response body

\* ------------------------------------------------------- program constants
DefaultMaxConcurrent == 5
DefaultTimeout == 30        \* common.DefaultTimeout, in seconds
LargeFileCeiling == 1000    \* 1024*1024*1000 bytes, in units of 1024*1024

VARIABLES
    maxConcurrentDownloads, \* downloader.go:29
    allowOverwriteFiles,    \* downloader.go:30
    defaultTimeout,         \* downloader.go:28, in seconds
    phase,                  \* which entry point of the package is running
    urls,                   \* the batch's argument
    dir,                    \* working directory: file name -> inode
    disk,                   \* inode -> contents (sequence of chunks)
    maxConcurrent,          \* downloader.go:300
    sem,                    \* number of tickets in the semaphore channel
    mu,                     \* holder of the filename mutex, 0 when free
    errorChan,              \* buffered error channel, in send order
    wg,                     \* WaitGroup counter
    pc,                     \* position of every worker
    filename,               \* worker-local filename
    probe,                  \* worker-local loop counter i of the suffix loop
    resp,                   \* worker-local response
    fh,                     \* worker-local open file: inode, 0 when none
    off,                    \* write offset of the open file
    outcome,                \* exit path every job took
    idx,                    \* DownloadFiles: loop index i
    failedCount,            \* DownloadFiles: failedCount
    expired,                \* DownloadFiles: ctx.Done() is ready
    before,                 \* the directory as the running call found it
    result,                 \* value the batch returned
    call,                   \* the call made last: function, inputs
    ret                     \* what that call returned

cfgVars == <<maxConcurrentDownloads, allowOverwriteFiles, defaultTimeout>>
fsVars  == <<dir, disk>>
simVars == <<maxConcurrent, sem, mu, errorChan, wg>>
jobVars == <<pc, filename, probe, resp, fh, off, outcome>>
seqVars == <<idx, failedCount, expired, before>>
extVars == <<call, ret>>
dlVars  == <<maxConcurrentDownloads, allowOverwriteFiles, defaultTimeout,
             phase, urls, dir, disk, maxConcurrent, sem, mu, errorChan, wg, pc, filename,
             probe, resp, fh, off, outcome, idx, failedCount, expired,
             before, result>>
vars    == <<dlVars, extVars>>

\* ----------------------------------------------------------------- strings
Range(s) == {s[k] : k \in 1..Len(s)}

RECURSIVE Concat(_)
Concat(s) == IF s = <<>> THEN "" ELSE Head(s) \o Concat(Tail(s))

RECURSIVE TrimSlashes(_)
TrimSlashes(s) ==
    IF s # <<>> /\ s[Len(s)] = "/" THEN TrimSlashes(SubSeq(s, 1, Len(s) - 1))
    ELSE s

LastSlash(s) ==
    LET at == {k \in 1..Len(s) : s[k] = "/"}
    IN  IF at = {} THEN 0 ELSE CHOOSE k \in at : \A j \in at : j <= k

\* filepath.Base
Base(path) ==
    IF path = <<>> THEN "."
    ELSE LET t == TrimSlashes(path)
         IN  IF t = <<>> THEN "/"
             ELSE Concat(SubSeq(t, LastSlash(t) + 1, Len(t)))

\* fmt.Sprintf("%s.%d", filename, i)
SuffixName(name, i) == name \o "." \o ToString(i)

\* -------------------------------------------------------------- environment
UrlA   == <<"https", ":", "/", "/", "h", "/", "a", "/", "f">>
UrlB   == <<"https", ":", "/", "/", "h", "/", "b", "/", "f">>
UrlF1  == <<"https", ":", "/", "/", "h", "/", "f.1">>
UrlBad == <<"https", ":", "/", "/", "h", "/", "%zz">>
DlURLs == <<UrlBad, UrlA, UrlB, UrlF1>>

\* the batches: the runs of at most MaxJobs consecutive URLs of DlURLs
Batches ==
    {SubSeq(DlURLs, a, b) : a \in 1..Len(DlURLs), b \in 0..Len(DlURLs)} \cap
    UNION {[1..n -> Range(DlURLs)] : n \in 0..MaxJobs}

Jobs == 1..MaxJobs
N == Len(urls)

PreFiles == {"f", "f.1"}
Orig == 0               \* chunk of a file that predates the batch
Hole == -1              \* bytes a write past the end of a file leaves behind
PreInode(name) == IF name = "f" THEN MaxJobs + 1 ELSE MaxJobs + 2
PreContent == <<Orig, Orig>>

\* a returned error: its kind, the counts its message names, and the
\* messages it concatenates
Err(kind, count, total, msgs) ==
    [kind |-> kind, count |-> count, total |-> total, msgs |-> msgs]
NoResult == Err("none", 0, 0, <<>>)
Nil      == Err("nil", 0, 0, <<>>)
NoURLs   == Err("noURLs", 0, 0, <<>>)
NoResp   == [status |-> 0, length |-> 0]
NoFile   == -2          \* the contents of a name that is not in the directory

\* resp.ContentLength of a 2xx response, in units of 1024*1024 bytes: the
\* server declares a length above the ceiling for one of the resources
ContentLength(url) == IF url = UrlB THEN LargeFileCeiling + 1 ELSE 1
\* the values the tool is configured with before a batch
CeilArgs == {-1, 0, 1, 2}

\* http.NewRequestWithContext fails on a URL that does not parse
RequestOK(url) == "%zz" \notin Range(url)

Exists(name) == name \in DOMAIN dir                       \* os.Stat

\* ---------------------------------------------------------- file system
\* os.Create: O_CREATE|O_TRUNC; returns the inode the name now refers to
CreatedInode(name, j) == IF Exists(name) THEN dir[name] ELSE j
CreateDir(name, j)  == [n \in DOMAIN dir \cup {name} |->
                           IF n = name THEN CreatedInode(name, j) ELSE dir[n]]
CreateDisk(name, j) == [i \in DOMAIN disk \cup {CreatedInode(name, j)} |->
                           IF i = CreatedInode(name, j) THEN <<>> ELSE disk[i]]

\* what a reader of the name finds in directory d over inodes k
Content(d, k, name) == IF name \in DOMAIN d THEN k[d[name]] ELSE <<NoFile>>

\* os.Remove: unlinks the name; open files keep their inode
RemoveDir(name) == [n \in DOMAIN dir \ {name} |-> dir[n]]

\* the inodes still reachable: by a name, or by an open file
Reclaim(d, names, open) ==
    [i \in {k \in DOMAIN d : \/ \E n \in DOMAIN names : names[n] = k
                              \/ \E j \in DOMAIN open : open[j] = k} |-> d[i]]

\* a write of one chunk by job j at offset o (0-based) of contents d
WriteAt(d, o, j) ==
    [k \in 1..(IF Len(d) > o + 1 THEN Len(d) ELSE o + 1) |->
        IF k = o + 1 THEN j ELSE IF k <= Len(d) THEN d[k] ELSE Hole]

\* ------------------------------------------------------------ construction
Init ==
    /\ maxConcurrentDownloads = DefaultMaxConcurrent
    /\ allowOverwriteFiles = FALSE
    /\ defaultTimeout = DefaultTimeout
    /\ phase = "config"
    /\ urls = <<>>
    /\ \E pre \in SUBSET PreFiles :
          /\ dir = [n \in pre |-> PreInode(n)]
          /\ disk = [i \in {PreInode(n) : n \in pre} |-> PreContent]
    /\ maxConcurrent = 0
    /\ sem = 0
    /\ mu = 0
    /\ errorChan = <<>>
    /\ wg = 0
    /\ pc = [j \in Jobs |-> "idle"]
    /\ filename = [j \in Jobs |-> ""]
    /\ probe = [j \in Jobs |-> 0]
    /\ resp = [j \in Jobs |-> NoResp]
    /\ fh = [j \in Jobs |-> 0]
    /\ off = [j \in Jobs |-> 0]
    /\ outcome = [j \in Jobs |-> "none"]
    /\ idx = 0
    /\ failedCount = 0
    /\ expired = FALSE
    /\ before = [dir |-> dir, disk |-> disk]
    /\ result = NoResult
    /\ call = [fn |-> "none"]
    /\ ret = [links |-> <<>>, malformed |-> <<>>, warning |-> 0, err |-> "nil",
              opened |-> FALSE]

\* ------------------------------------------------------------ configuration
\* SetMaxConcurrent accepting every value that is not negative
SetMaxConcurrentNonNegative(max) ==
    /\ phase = "config"
    /\ maxConcurrentDownloads' = IF max >= 0 THEN max ELSE maxConcurrentDownloads
    /\ call' = [fn |-> "SetMaxConcurrent", max |-> max]
    /\ UNCHANGED <<allowOverwriteFiles, defaultTimeout, phase, urls, fsVars,
                   simVars, jobVars, seqVars, result, ret>>

SetMaxConcurrent(max) ==
    /\ phase = "config"
    /\ maxConcurrentDownloads' = IF max > 0 THEN max ELSE maxConcurrentDownloads
    /\ call' = [fn |-> "SetMaxConcurrent", max |-> max]
    /\ UNCHANGED <<allowOverwriteFiles, defaultTimeout, phase, urls, fsVars,
                   simVars, jobVars, seqVars, result, ret>>

SetOverwriteFiles(overwrite) ==
    /\ phase = "config"
    /\ allowOverwriteFiles' = overwrite
    /\ call' = [fn |-> "SetOverwriteFiles", overwrite |-> overwrite]
    /\ UNCHANGED <<maxConcurrentDownloads, defaultTimeout, phase, urls, fsVars,
                   simVars, jobVars, seqVars, result, ret>>

\* the durations the request timeout is set to, in seconds
TimeoutArgs == {0, 2 * DefaultTimeout}

SetTimeout(timeout) ==
    /\ phase = "config"
    /\ defaultTimeout' = timeout
    /\ call' = [fn |-> "SetTimeout", timeout |-> timeout]
    /\ UNCHANGED <<maxConcurrentDownloads, allowOverwriteFiles, phase, urls,
                   fsVars, simVars, jobVars, seqVars, result, ret>>

Configure ==
    \/ \E max \in CeilArgs : SetMaxConcurrent(max)
    \/ \E overwrite \in BOOLEAN : SetOverwriteFiles(overwrite)

\* ------------------------------------------- DownloadFilesSimultaneously
\* entry: the empty-list check, the semaphore, and one goroutine per URL
\* (wg.Add(1); go func) -- a goroutine that has not taken a step yet is
\* indistinguishable from one that has not been started
\* SimStart lowering the configured ceiling to the size of the batch
SimStartClampsCeiling(list) ==
    /\ phase = "config"
    /\ urls' = list
    /\ maxConcurrentDownloads' = IF Len(list) < maxConcurrentDownloads
                                 THEN Len(list) ELSE maxConcurrentDownloads
    /\ IF Len(list) = 0
       THEN /\ phase' = "done"
            /\ result' = NoURLs
            /\ UNCHANGED <<maxConcurrent, wg, pc>>
       ELSE /\ phase' = "sim"
            /\ maxConcurrent' = maxConcurrentDownloads
            /\ wg' = Len(list)
            /\ pc' = [j \in Jobs |-> IF j <= Len(list) THEN "acquire" ELSE "idle"]
            /\ UNCHANGED result
    /\ call' = [fn |-> "DownloadFilesSimultaneously"]
    /\ UNCHANGED <<allowOverwriteFiles, defaultTimeout, fsVars, sem, mu,
                   errorChan, filename, probe, resp, fh, off, outcome, seqVars,
                   ret>>

SimStart(list) ==
    /\ phase = "config"
    /\ urls' = list
    /\ IF Len(list) = 0
       THEN /\ phase' = "done"
            /\ result' = NoURLs
            /\ UNCHANGED <<maxConcurrent, wg, pc>>
       ELSE /\ phase' = "sim"
            /\ maxConcurrent' = maxConcurrentDownloads
            /\ wg' = Len(list)
            /\ pc' = [j \in Jobs |-> IF j <= Len(list) THEN "acquire" ELSE "idle"]
            /\ UNCHANGED result
    /\ call' = [fn |-> "DownloadFilesSimultaneously"]
    /\ UNCHANGED <<cfgVars, fsVars, sem, mu, errorChan, filename, probe, resp,
                   fh, off, outcome, seqVars, ret>>

\* WAcquire with a send that never blocks
WAcquireUnbounded(j) ==
    /\ phase = "sim" /\ pc[j] = "acquire"
    /\ sem' = sem + 1
    /\ pc' = [pc EXCEPT ![j] = "lock"]
    /\ UNCHANGED <<cfgVars, phase, urls, fsVars, maxConcurrent, mu, errorChan,
                   wg, filename, probe, resp, fh, off, outcome, seqVars, result, extVars>>

\* sem <- struct{}{}
WAcquire(j) ==
    /\ phase = "sim" /\ pc[j] = "acquire"
    /\ sem < maxConcurrent
    /\ sem' = sem + 1
    /\ pc' = [pc EXCEPT ![j] = "lock"]
    /\ UNCHANGED <<cfgVars, phase, urls, fsVars, maxConcurrent, mu, errorChan,
                   wg, filename, probe, resp, fh, off, outcome, seqVars, result, extVars>>

\* mu.Lock(); filename := filepath.Base(url)
WLock(j) ==
    /\ phase = "sim" /\ pc[j] = "lock"
    /\ mu = 0
    /\ mu' = j
    /\ filename' = [filename EXCEPT ![j] = Base(urls[j])]
    /\ pc' = [pc EXCEPT ![j] = IF allowOverwriteFiles THEN "unlock" ELSE "stat"]
    /\ UNCHANGED <<cfgVars, phase, urls, fsVars, maxConcurrent, sem, errorChan,
                   wg, probe, resp, fh, off, outcome, seqVars, result, extVars>>

\* WStat keeping the derived name whether or not it exists
WStatKeepsName(j) ==
    /\ phase = "sim" /\ pc[j] = "stat"
    /\ pc' = [pc EXCEPT ![j] = "unlock"]
    /\ UNCHANGED <<cfgVars, phase, urls, fsVars, simVars, filename, probe, resp,
                   fh, off, outcome, seqVars, result, extVars>>

\* if _, err := os.Stat(filename); err == nil
WStat(j) ==
    /\ phase = "sim" /\ pc[j] = "stat"
    /\ IF Exists(filename[j])
       THEN /\ probe' = [probe EXCEPT ![j] = 1]
            /\ pc' = [pc EXCEPT ![j] = "probe"]
       ELSE /\ pc' = [pc EXCEPT ![j] = "unlock"]
            /\ UNCHANGED probe
    /\ UNCHANGED <<cfgVars, phase, urls, fsVars, simVars, filename, resp, fh,
                   off, outcome, seqVars, result, extVars>>

\* WProbe taking the first suffixed name without looking for it
WProbeTakesFirst(j) ==
    /\ phase = "sim" /\ pc[j] = "probe"
    /\ filename' = [filename EXCEPT ![j] = SuffixName(filename[j], probe[j])]
    /\ pc' = [pc EXCEPT ![j] = "unlock"]
    /\ UNCHANGED <<cfgVars, phase, urls, fsVars, simVars, probe, resp, fh, off,
                   outcome, seqVars, result, extVars>>

\* one iteration of: for i := 1; ; i++
WProbe(j) ==
    /\ phase = "sim" /\ pc[j] = "probe"
    /\ LET newName == SuffixName(filename[j], probe[j])
       IN  IF ~Exists(newName)
           THEN /\ filename' = [filename EXCEPT ![j] = newName]
                /\ pc' = [pc EXCEPT ![j] = "unlock"]
                /\ UNCHANGED probe
           ELSE /\ probe' = [probe EXCEPT ![j] = probe[j] + 1]
                /\ UNCHANGED <<filename, pc>>
    /\ UNCHANGED <<cfgVars, phase, urls, fsVars, simVars, resp, fh, off,
                   outcome, seqVars, result, extVars>>

\* WUnlock without the mu.Unlock()
WUnlockKeepsMutex(j) ==
    /\ phase = "sim" /\ pc[j] = "unlock"
    /\ pc' = [pc EXCEPT ![j] = "request"]
    /\ UNCHANGED <<cfgVars, phase, urls, fsVars, simVars, filename, probe, resp,
                   fh, off, outcome, seqVars, result, extVars>>

\* mu.Unlock()
WUnlock(j) ==
    /\ phase = "sim" /\ pc[j] = "unlock"
    /\ mu' = 0
    /\ pc' = [pc EXCEPT ![j] = "request"]
    /\ UNCHANGED <<cfgVars, phase, urls, fsVars, maxConcurrent, sem, errorChan,
                   wg, filename, probe, resp, fh, off, outcome, seqVars, result, extVars>>

\* what client.Do returns when the transport succeeds
Response(st, url) ==
    [status |-> st, length |-> IF st = 200 THEN ContentLength(url) ELSE 0]

ErrMsg(j, kind) == [job |-> j, kind |-> kind]

\* a worker's error branch: errorChan <- ...; return.  The channel is
\* made with room for len(urls) errors and a send waits while it is full
WFail(j, kind) ==
    /\ Len(errorChan) < N
    /\ errorChan' = Append(errorChan, ErrMsg(j, kind))
    /\ outcome' = [outcome EXCEPT ![j] = kind]
    /\ pc' = [pc EXCEPT ![j] = "exit"]

\* http.NewRequestWithContext, client.Do and the status check
WRequest(j) ==
    /\ phase = "sim" /\ pc[j] = "request"
    /\ IF ~RequestOK(urls[j])
       THEN WFail(j, "request") /\ UNCHANGED resp
       ELSE \/ WFail(j, "transport") /\ UNCHANGED resp
            \/ \E st \in {200, 404} :
                  /\ resp' = [resp EXCEPT ![j] = Response(st, urls[j])]
                  /\ IF st < 200 \/ st >= 300
                     THEN WFail(j, "status")
                     ELSE /\ pc' = [pc EXCEPT ![j] = "create"]
                          /\ UNCHANGED <<errorChan, outcome>>
    /\ UNCHANGED <<cfgVars, phase, urls, fsVars, maxConcurrent, sem, mu, wg,
                   filename, probe, fh, off, seqVars, result, extVars>>

\* file, err := os.Create(filename)
WCreate(j) ==
    /\ phase = "sim" /\ pc[j] = "create"
    /\ \/ /\ WFail(j, "create")
          /\ UNCHANGED <<fsVars, fh, off>>
       \/ /\ dir' = CreateDir(filename[j], j)
          /\ disk' = CreateDisk(filename[j], j)
          /\ fh' = [fh EXCEPT ![j] = CreatedInode(filename[j], j)]
          /\ off' = [off EXCEPT ![j] = 0]
          /\ pc' = [pc EXCEPT ![j] = "copy"]
          /\ UNCHANGED <<errorChan, outcome>>
    /\ UNCHANGED <<cfgVars, phase, urls, maxConcurrent, sem, mu, wg, filename,
                   probe, resp, seqVars, result, extVars>>

\* one write call of io.Copy(file, resp.Body)
WCopy(j) ==
    /\ phase = "sim" /\ pc[j] = "copy"
    /\ \/ /\ pc' = [pc EXCEPT ![j] = "remove"]
          /\ UNCHANGED <<disk, off, outcome>>
       \/ /\ disk' = [disk EXCEPT ![fh[j]] = WriteAt(disk[fh[j]], off[j], j)]
          /\ off' = [off EXCEPT ![j] = off[j] + 1]
          /\ IF off[j] + 1 = BodyLen
             THEN /\ pc' = [pc EXCEPT ![j] = "exit"]
                  /\ outcome' = [outcome EXCEPT ![j] = "ok"]
             ELSE UNCHANGED <<pc, outcome>>
    /\ UNCHANGED <<cfgVars, phase, urls, dir, simVars, filename, probe, resp,
                   fh, seqVars, result, extVars>>

\* WRemove without the os.Remove
WRemoveKeeps(j) ==
    /\ phase = "sim" /\ pc[j] = "remove"
    /\ pc' = [pc EXCEPT ![j] = "report"]
    /\ UNCHANGED <<cfgVars, phase, urls, fsVars, simVars, filename, probe, resp,
                   fh, off, outcome, seqVars, result, extVars>>

\* os.Remove(filename); errorChan <- ...
WRemove(j) ==
    /\ phase = "sim" /\ pc[j] = "remove"
    /\ dir' = RemoveDir(filename[j])
    /\ pc' = [pc EXCEPT ![j] = "report"]
    /\ UNCHANGED <<cfgVars, phase, urls, disk, simVars, filename, probe, resp,
                   fh, off, outcome, seqVars, result, extVars>>

\* WReport without the send
WReportSilent(j) ==
    /\ phase = "sim" /\ pc[j] = "report"
    /\ outcome' = [outcome EXCEPT ![j] = "write"]
    /\ pc' = [pc EXCEPT ![j] = "exit"]
    /\ UNCHANGED <<cfgVars, phase, urls, fsVars, simVars, filename, probe, resp,
                   fh, off, seqVars, result, extVars>>

\* WReport with the error sent twice
WReportTwice(j) ==
    /\ phase = "sim" /\ pc[j] = "report"
    /\ errorChan' = errorChan \o <<ErrMsg(j, "write"), ErrMsg(j, "write")>>
    /\ outcome' = [outcome EXCEPT ![j] = "write"]
    /\ pc' = [pc EXCEPT ![j] = "exit"]
    /\ UNCHANGED <<cfgVars, phase, urls, fsVars, maxConcurrent, sem, mu, wg,
                   filename, probe, resp, fh, off, seqVars, result, extVars>>

\* the write-error branch: errorChan <- ...
WReport(j) ==
    /\ phase = "sim" /\ pc[j] = "report"
    /\ WFail(j, "write")
    /\ UNCHANGED <<cfgVars, phase, urls, fsVars, maxConcurrent, sem, mu, wg,
                   filename, probe, resp, fh, off, seqVars, result, extVars>>

\* WExit without the receive from sem
WExitKeepsTicket(j) ==
    /\ phase = "sim" /\ pc[j] = "exit"
    /\ fh' = [fh EXCEPT ![j] = 0]
    /\ disk' = Reclaim(disk, dir, [fh EXCEPT ![j] = 0])
    /\ off' = [off EXCEPT ![j] = 0]
    /\ probe' = [probe EXCEPT ![j] = 0]
    /\ resp' = [resp EXCEPT ![j] = NoResp]
    /\ wg' = wg - 1
    /\ pc' = [pc EXCEPT ![j] = "done"]
    /\ UNCHANGED <<cfgVars, phase, urls, dir, maxConcurrent, sem, mu, errorChan,
                   filename, outcome, seqVars, result, extVars>>

\* the deferred calls: file.Close(), <-sem, wg.Done(); the goroutine's
\* locals die with it, and so does an unlinked inode nobody has open
WExit(j) ==
    /\ phase = "sim" /\ pc[j] = "exit"
    /\ fh' = [fh EXCEPT ![j] = 0]
    /\ disk' = Reclaim(disk, dir, [fh EXCEPT ![j] = 0])
    /\ off' = [off EXCEPT ![j] = 0]
    /\ probe' = [probe EXCEPT ![j] = 0]
    /\ resp' = [resp EXCEPT ![j] = NoResp]
    /\ sem' = sem - 1
    /\ wg' = wg - 1
    /\ pc' = [pc EXCEPT ![j] = "done"]
    /\ UNCHANGED <<cfgVars, phase, urls, dir, maxConcurrent, mu, errorChan,
                   filename, outcome, seqVars, result, extVars>>

\* wg.Wait(); close(errorChan); collect; return
SimReturn ==
    /\ phase = "sim"
    /\ wg = 0
    /\ result' = IF Len(errorChan) > 0
                 THEN Err("aggregate", Len(errorChan), 0, errorChan)
                 ELSE Nil
    /\ phase' = "done"
    /\ UNCHANGED <<cfgVars, urls, fsVars, simVars, jobVars, seqVars, extVars>>

\* -------------------------------------------------------- DownloadFiles
SeqBatches == UNION {[1..n -> Range(DlURLs)] : n \in 0..MaxJobs}

\* entry: the empty-list check and the batch deadline
SeqStart(list) ==
    /\ phase = "config"
    /\ urls' = list
    /\ IF Len(list) = 0
       THEN phase' = "done" /\ result' = NoURLs
       ELSE phase' = "seq" /\ UNCHANGED result
    /\ idx' = 0
    /\ failedCount' = 0
    /\ expired' = FALSE
    /\ call' = [fn |-> "DownloadFiles"]
    /\ UNCHANGED <<cfgVars, fsVars, simVars, jobVars, before, ret>>

\* the 10-minute context of the batch runs out
Deadline ==
    /\ phase = "seq"
    /\ ~expired
    /\ expired' = TRUE
    /\ UNCHANGED <<cfgVars, phase, urls, fsVars, simVars, jobVars, idx,
                   failedCount, before, result, extVars>>

\* SeqLoop without the select on ctx.Done()
SeqLoopUnchecked ==
    /\ phase = "seq"
    /\ idx < N
    /\ pc[idx + 1] = "idle"
    /\ pc' = [pc EXCEPT ![idx + 1] = "request"]
    /\ before' = [dir |-> dir, disk |-> disk]
    /\ UNCHANGED <<cfgVars, phase, urls, fsVars, simVars, filename, probe,
                   resp, fh, off, outcome, idx, failedCount, expired, result,
                   extVars>>

\* loop head: select on ctx.Done(), then the call of DownloadFile
SeqLoop ==
    /\ phase = "seq"
    /\ idx < N
    /\ pc[idx + 1] = "idle"
    /\ IF expired
       THEN /\ result' = Err("timeout", idx, N, <<>>)
            /\ phase' = "done"
            /\ UNCHANGED <<pc, before>>
       ELSE /\ pc' = [pc EXCEPT ![idx + 1] = "request"]
            /\ before' = [dir |-> dir, disk |-> disk]
            /\ UNCHANGED <<phase, result, extVars>>
    /\ UNCHANGED <<cfgVars, urls, fsVars, simVars, filename, probe, resp, fh,
                   off, outcome, idx, failedCount, expired, extVars>>

\* DownloadFile returns err (a return statement before the file is created)
DReturn(j, kind) ==
    /\ outcome' = [outcome EXCEPT ![j] = kind]
    /\ pc' = [pc EXCEPT ![j] = "exit"]

\* DownloadFile: the request, the status check, the size check and
\* filename := filepath.Base(url)
DRequest(j) ==
    /\ phase = "seq" /\ pc[j] = "request"
    /\ IF ~RequestOK(urls[j])
       THEN DReturn(j, "request") /\ UNCHANGED <<resp, filename>>
       ELSE \/ DReturn(j, "transport") /\ UNCHANGED <<resp, filename>>
            \/ \E st \in {200, 404} :
                  /\ resp' = [resp EXCEPT ![j] = Response(st, urls[j])]
                  /\ IF st < 200 \/ st >= 300
                     THEN DReturn(j, "status") /\ UNCHANGED filename
                     ELSE IF Response(st, urls[j]).length > LargeFileCeiling
                     THEN DReturn(j, "toolarge") /\ UNCHANGED filename
                     ELSE /\ filename' = [filename EXCEPT ![j] = Base(urls[j])]
                          /\ pc' = [pc EXCEPT ![j] = "stat"]
                          /\ UNCHANGED outcome
    /\ UNCHANGED <<cfgVars, phase, urls, fsVars, simVars, probe, fh, off,
                   seqVars, result, extVars>>

\* DStat without the existence check
DStatIgnoresExisting(j) ==
    /\ phase = "seq" /\ pc[j] = "stat"
    /\ pc' = [pc EXCEPT ![j] = "create"]
    /\ UNCHANGED <<cfgVars, phase, urls, fsVars, simVars, filename, probe,
                   resp, fh, off, outcome, seqVars, result, extVars>>

\* DownloadFile: if !allowOverwriteFiles { if _, err := os.Stat(filename) ...
DStat(j) ==
    /\ phase = "seq" /\ pc[j] = "stat"
    /\ IF ~allowOverwriteFiles /\ Exists(filename[j])
       THEN DReturn(j, "exists")
       ELSE pc' = [pc EXCEPT ![j] = "create"] /\ UNCHANGED outcome
    /\ UNCHANGED <<cfgVars, phase, urls, fsVars, simVars, filename, probe,
                   resp, fh, off, seqVars, result, extVars>>

\* DownloadFile: file, err := os.Create(filename)
DCreate(j) ==
    /\ phase = "seq" /\ pc[j] = "create"
    /\ \/ /\ DReturn(j, "create")
          /\ UNCHANGED <<fsVars, fh, off>>
       \/ /\ dir' = CreateDir(filename[j], j)
          /\ disk' = CreateDisk(filename[j], j)
          /\ fh' = [fh EXCEPT ![j] = CreatedInode(filename[j], j)]
          /\ off' = [off EXCEPT ![j] = 0]
          /\ pc' = [pc EXCEPT ![j] = "copy"]
          /\ UNCHANGED outcome
    /\ UNCHANGED <<cfgVars, phase, urls, simVars, filename, probe, resp,
                   seqVars, result, extVars>>

\* DownloadFile: one write call of io.Copy(file, resp.Body)
DCopy(j) ==
    /\ phase = "seq" /\ pc[j] = "copy"
    /\ \/ /\ pc' = [pc EXCEPT ![j] = "remove"]
          /\ UNCHANGED <<disk, off, outcome>>
       \/ /\ disk' = [disk EXCEPT ![fh[j]] = WriteAt(disk[fh[j]], off[j], j)]
          /\ off' = [off EXCEPT ![j] = off[j] + 1]
          /\ IF off[j] + 1 = BodyLen
             THEN DReturn(j, "ok")
             ELSE UNCHANGED <<pc, outcome>>
    /\ UNCHANGED <<cfgVars, phase, urls, dir, simVars, filename, probe, resp,
                   fh, seqVars, result, extVars>>

\* DownloadFile: os.Remove(filename); return the write error
DRemove(j) ==
    /\ phase = "seq" /\ pc[j] = "remove"
    /\ dir' = RemoveDir(filename[j])
    /\ DReturn(j, "write")
    /\ UNCHANGED <<cfgVars, phase, urls, disk, simVars, filename, probe, resp,
                   fh, off, seqVars, result, extVars>>

\* SeqCollect with failedCount++ outside the if
SeqCollectCountsAll(j) ==
    /\ phase = "seq" /\ pc[j] = "exit"
    /\ fh' = [fh EXCEPT ![j] = 0]
    /\ disk' = Reclaim(disk, dir, [fh EXCEPT ![j] = 0])
    /\ off' = [off EXCEPT ![j] = 0]
    /\ resp' = [resp EXCEPT ![j] = NoResp]
    /\ pc' = [pc EXCEPT ![j] = "done"]
    /\ failedCount' = failedCount + 1
    /\ idx' = idx + 1
    /\ UNCHANGED <<cfgVars, phase, urls, dir, simVars, filename, probe,
                   outcome, expired, before, result, extVars>>

\* SeqCollect with a return at the first failed item
SeqCollectStopsOnFailure(j) ==
    /\ phase = "seq" /\ pc[j] = "exit"
    /\ fh' = [fh EXCEPT ![j] = 0]
    /\ disk' = Reclaim(disk, dir, [fh EXCEPT ![j] = 0])
    /\ off' = [off EXCEPT ![j] = 0]
    /\ resp' = [resp EXCEPT ![j] = NoResp]
    /\ pc' = [pc EXCEPT ![j] = "done"]
    /\ failedCount' = IF outcome[j] # "ok" THEN failedCount + 1 ELSE failedCount
    /\ idx' = IF outcome[j] # "ok" THEN N ELSE idx + 1
    /\ UNCHANGED <<cfgVars, phase, urls, dir, simVars, filename, probe,
                   outcome, expired, before, result, extVars>>

\* DownloadFile's deferred file.Close(), then back in the loop:
\* if err != nil { failedCount++ }, the pause, and i++
SeqCollect(j) ==
    /\ phase = "seq" /\ pc[j] = "exit"
    /\ fh' = [fh EXCEPT ![j] = 0]
    /\ disk' = Reclaim(disk, dir, [fh EXCEPT ![j] = 0])
    /\ off' = [off EXCEPT ![j] = 0]
    /\ resp' = [resp EXCEPT ![j] = NoResp]
    /\ pc' = [pc EXCEPT ![j] = "done"]
    /\ failedCount' = IF outcome[j] # "ok" THEN failedCount + 1 ELSE failedCount
    /\ idx' = idx + 1
    /\ UNCHANGED <<cfgVars, phase, urls, dir, simVars, filename, probe,
                   outcome, expired, before, result, extVars>>

\* after the loop
SeqReturn ==
    /\ phase = "seq"
    /\ idx = N
    /\ result' = IF failedCount > 0 THEN Err("aggregate", failedCount, N, <<>>)
                 ELSE Nil
    /\ phase' = "done"
    /\ UNCHANGED <<cfgVars, urls, fsVars, simVars, jobVars, seqVars, extVars>>

DownloadFile(j) ==
    \/ DRequest(j) \/ DStat(j) \/ DCreate(j) \/ DCopy(j) \/ DRemove(j)
    \/ SeqCollect(j)

SeqNext ==
    \/ Configure
    \/ \E list \in SeqBatches : SeqStart(list)
    \/ Deadline
    \/ SeqLoop
    \/ \E j \in Jobs : DownloadFile(j)
    \/ SeqReturn

SpecSeq == Init /\ [][SeqNext]_vars

Worker(j) ==
    \/ WAcquire(j) \/ WLock(j) \/ WStat(j) \/ WProbe(j) \/ WUnlock(j)
    \/ WRequest(j) \/ WCreate(j) \/ WCopy(j) \/ WRemove(j) \/ WReport(j)
    \/ WExit(j)

Next ==
    \/ Configure
    \/ \E list \in Batches : SimStart(list)
    \/ \E j \in Jobs : Worker(j)
    \/ SimReturn

Spec == Init /\ [][Next]_vars

\* the Go scheduler runs every goroutine that can take a step, and every
\* request and every write ends: no worker and no wg.Wait() that stays able
\* to go on is left waiting for ever
Fairness ==
    /\ \A j \in Jobs : WF_vars(Worker(j))
    /\ WF_vars(SimReturn)
\* a batch under every ceiling, in a directory that holds both files
LiveInit == Init /\ DOMAIN dir = PreFiles
LiveNext ==
    \/ \E max \in CeilArgs : SetMaxConcurrent(max)
    \/ \E list \in Batches : SimStart(list)
    \/ \E j \in Jobs : Worker(j)
    \/ SimReturn
SpecLive == LiveInit /\ [][LiveNext]_vars /\ Fairness
\* both download modes
DlNext == Next \/ SeqNext
SpecDl == Init /\ [][DlNext]_vars
\* both download modes after any configuration, the request timeout included
CfgNext ==
    \/ \E timeout \in TimeoutArgs : SetTimeout(timeout)
    \/ DlNext
SpecCfg == LiveInit /\ [][CfgNext]_vars

\* ----------------------------------------------------------------- net/url
\* the tokens that have the syntax of a URL scheme (a letter, then letters,
\* digits, "+", "-", "."); every other token of the alphabet has not
SchemeToks == {"https", "http", "file", "javascript", "JavaScript", "mailto",
               "page1", "page3", "section", "example.com", "cdn.io", "foo",
               "dir", "index.html", "tmp", "x.html", "see", "and",
               "github.com", "owner", "repo", "repo.git", "releases"}
ToLower(t) == IF t = "JavaScript" THEN "javascript" ELSE t
BadEscape == "%zz"      \* a "%" that no two hex digits follow

IndexOf(s, t) ==
    LET at == {k \in 1..Len(s) : s[k] = t}
    IN  IF at = {} THEN 0 ELSE CHOOSE k \in at : \A j \in at : k <= j
HasPrefix(s, prefix) ==
    Len(s) >= Len(prefix) /\ SubSeq(s, 1, Len(prefix)) = prefix

\* url.URL, without the parts no input of the model has (user, query)
URL(scheme, opaque, host, path, fragment) ==
    [ok |-> TRUE, scheme |-> scheme, opaque |-> opaque, host |-> host,
     path |-> path, fragment |-> fragment, omitHost |-> FALSE]
\* a url.Parse that returned an error
NoURL == [ok |-> FALSE, scheme |-> "", opaque |-> <<>>, host |-> "",
          path |-> <<>>, fragment |-> <<>>, omitHost |-> FALSE]
EmptyURL == URL("", <<>>, "", <<>>, <<>>)

\* URL.setPath: the path must unescape
SetPath(scheme, host, path) ==
    IF BadEscape \in Range(path) THEN NoURL
    ELSE URL(scheme, <<>>, host, path, <<>>)

\* url.parse, from "//" on: the authority up to the next "/", then the path
ParseAuthority(scheme, rest) ==
    LET after == SubSeq(rest, 3, Len(rest))
        slash == IndexOf(after, "/")
        auth  == IF slash = 0 THEN after ELSE SubSeq(after, 1, slash - 1)
        path  == IF slash = 0 THEN <<>> ELSE SubSeq(after, slash, Len(after))
    IN  IF auth = <<>> THEN SetPath(scheme, "", path)
        ELSE IF Len(auth) = 1 /\ auth[1] # BadEscape
        THEN SetPath(scheme, auth[1], path)
        ELSE NoURL

\* url.parse: the URL without its fragment
ParseNoFragment(u) ==
    IF u # <<>> /\ u[1] = ":" THEN NoURL            \* missing protocol scheme
    ELSE
    LET hasScheme == Len(u) >= 2 /\ u[1] \in SchemeToks /\ u[2] = ":"
        scheme == IF hasScheme THEN ToLower(u[1]) ELSE ""
        rest   == IF hasScheme THEN SubSeq(u, 3, Len(u)) ELSE u
        slash  == IndexOf(rest, "/")
        first  == IF slash = 0 THEN rest ELSE SubSeq(rest, 1, slash - 1)
    IN  IF ~HasPrefix(rest, <<"/">>)
        THEN IF scheme # "" THEN URL(scheme, rest, "", <<>>, <<>>)
             ELSE IF ":" \in Range(first) THEN NoURL
             ELSE SetPath(scheme, "", rest)
        ELSE IF /\ HasPrefix(rest, <<"/", "/">>)
                /\ (scheme # "" \/ ~HasPrefix(rest, <<"/", "/", "/">>))
        THEN ParseAuthority(scheme, rest)
        ELSE [SetPath(scheme, "", rest) EXCEPT !.omitHost = scheme # ""]

\* url.Parse
Parse(rawURL) ==
    LET hash == IndexOf(rawURL, "#")
        u    == IF hash = 0 THEN rawURL ELSE SubSeq(rawURL, 1, hash - 1)
        frag == IF hash = 0 THEN <<>>
                ELSE SubSeq(rawURL, hash + 1, Len(rawURL))
        url  == ParseNoFragment(u)
    IN  IF ~url.ok \/ BadEscape \in Range(frag) THEN NoURL
        ELSE [url EXCEPT !.fragment = frag]

\* strings.Split(s, "/")
RECURSIVE Split(_)
Split(s) ==
    LET slash == IndexOf(s, "/")
    IN  IF slash = 0 THEN <<s>>
        ELSE <<SubSeq(s, 1, slash - 1)>> \o Split(SubSeq(s, slash + 1, Len(s)))

\* the loop of url.resolvePath over the elements of the path
RECURSIVE ResolveElems(_, _, _)
ResolveElems(elems, dst, first) ==
    IF elems = <<>> THEN dst
    ELSE LET elem == Head(elems)
             str  == Tail(dst)
             last == LastSlash(str)
         IN  IF elem = <<".">> THEN ResolveElems(Tail(elems), dst, FALSE)
             ELSE IF elem = <<"..">>
             THEN IF last = 0
                  THEN ResolveElems(Tail(elems), <<"/">>, TRUE)
                  ELSE ResolveElems(Tail(elems),
                                    <<"/">> \o SubSeq(str, 1, last - 1), first)
             ELSE ResolveElems(Tail(elems),
                               (IF first THEN dst ELSE Append(dst, "/")) \o elem,
                               FALSE)

\* url.resolvePath
ResolvePath(base, ref) ==
    LET full == IF ref = <<>> THEN base
                ELSE IF ref[1] # "/"
                THEN SubSeq(base, 1, LastSlash(base)) \o ref
                ELSE ref
        elems == Split(full)
        dst  == ResolveElems(elems, <<"/">>, TRUE)
        r    == IF elems[Len(elems)] \in {<<".">>, <<"..">>}
                THEN Append(dst, "/") ELSE dst
    IN  IF full = <<>> THEN <<>>
        ELSE IF Len(r) > 1 /\ r[2] = "/" THEN Tail(r) ELSE r

\* ResolveReference that returns the reference as it is
ResolveReferenceKeepsRef(u, ref) == ref

\* URL.ResolveReference
ResolveReference(u, ref) ==
    LET scheme == IF ref.scheme = "" THEN u.scheme ELSE ref.scheme
    IN  IF ref.scheme # "" \/ ref.host # ""
        THEN [ref EXCEPT !.scheme = scheme,
                         !.path = ResolvePath(ref.path, <<>>)]
        ELSE IF ref.opaque # <<>>
        THEN [ref EXCEPT !.scheme = scheme, !.host = "", !.path = <<>>]
        ELSE LET frag == IF ref.path = <<>> /\ ref.fragment = <<>>
                         THEN u.fragment ELSE ref.fragment
             IN  IF ref.path = <<>> /\ u.opaque # <<>>
                 THEN URL(scheme, u.opaque, "", <<>>, frag)
                 ELSE URL(scheme, <<>>, u.host,
                          ResolvePath(u.path, ref.path), frag)

\* URL.String
URLString(u) ==
    LET scheme == IF u.scheme # "" THEN <<u.scheme, ":">> ELSE <<>>
        slash  == IndexOf(u.path, "/")
        first  == IF slash = 0 THEN u.path ELSE SubSeq(u.path, 1, slash - 1)
        auth   == IF u.omitHost /\ u.host = "" THEN <<>>
                  ELSE IF u.scheme # "" \/ u.host # ""
                  THEN (IF u.host # "" \/ u.path # <<>>
                        THEN <<"/", "/">> ELSE <<>>) \o
                       (IF u.host # "" THEN <<u.host>> ELSE <<>>)
                  ELSE <<>>
        lead   == IF u.path # <<>> /\ u.path[1] # "/" /\ u.host # ""
                  THEN <<"/">>
                  ELSE IF u.scheme = "" /\ u.host = "" /\ ":" \in Range(first)
                  THEN <<".", "/">>
                  ELSE <<>>
        frag   == IF u.fragment # <<>> THEN <<"#">> \o u.fragment ELSE <<>>
    IN  IF u.opaque # <<>> THEN scheme \o u.opaque \o frag
        ELSE scheme \o auth \o lead \o u.path \o frag

\* ------------------------------------------------------------ pkg/parser
\* html.Node: the fields the extractor reads
Node(type, data, attr, kids) ==
    [type |-> type, data |-> data, attr |-> attr, kids |-> kids]
Attr(key, val) == [key |-> key, val |-> val]

\* what the traversal accumulates: links, malformedURLs, visited
NoLinks == [links |-> <<>>, malformed |-> <<>>, visited |-> {}]

\* the code's test of a link that is no resource
Skipped(str) ==
    \/ HasPrefix(str, <<"javascript", ":">>)
    \/ HasPrefix(str, <<"mailto", ":">>)
    \/ HasPrefix(str, <<"#">>)

\* VisitHref without the visited map
VisitHrefRevisits(acc, val, baseURL) ==
    LET ref == Parse(val)
        urlStr == URLString(ResolveReference(baseURL, ref))
    IN  IF ~ref.ok THEN [acc EXCEPT !.malformed = Append(@, val)]
        ELSE IF Skipped(urlStr) THEN acc
        ELSE [acc EXCEPT !.links = Append(@, urlStr)]

\* VisitHref without the test for mailto:
VisitHrefKeepsMailto(acc, val, baseURL) ==
    LET ref == Parse(val)
        urlStr == URLString(ResolveReference(baseURL, ref))
    IN  IF ~ref.ok THEN [acc EXCEPT !.malformed = Append(@, val)]
        ELSE IF \/ HasPrefix(urlStr, <<"javascript", ":">>)
                \/ HasPrefix(urlStr, <<"#">>)
        THEN acc
        ELSE IF urlStr \in acc.visited THEN acc
        ELSE [acc EXCEPT !.visited = @ \cup {urlStr},
                         !.links = Append(@, urlStr)]

\* VisitHref with the filter on the attribute value, before it is resolved
VisitHrefFiltersRaw(acc, val, baseURL) ==
    LET ref == Parse(val)
        urlStr == URLString(ResolveReference(baseURL, ref))
    IN  IF ~ref.ok THEN [acc EXCEPT !.malformed = Append(@, val)]
        ELSE IF Skipped(val) THEN acc
        ELSE IF urlStr \in acc.visited THEN acc
        ELSE [acc EXCEPT !.visited = @ \cup {urlStr},
                         !.links = Append(@, urlStr)]

\* VisitHref giving up the links found so far at an href that does not parse
VisitHrefDropsOnMalformed(acc, val, baseURL) ==
    LET ref == Parse(val)
        urlStr == URLString(ResolveReference(baseURL, ref))
    IN  IF ~ref.ok THEN [acc EXCEPT !.malformed = Append(@, val), !.links = <<>>]
        ELSE IF Skipped(urlStr) THEN acc
        ELSE IF urlStr \in acc.visited THEN acc
        ELSE [acc EXCEPT !.visited = @ \cup {urlStr},
                         !.links = Append(@, urlStr)]

\* the body of: if a.Key == "href"
VisitHref(acc, val, baseURL) ==
    LET ref == Parse(val)
        urlStr == URLString(ResolveReference(baseURL, ref))
    IN  IF ~ref.ok THEN [acc EXCEPT !.malformed = Append(@, val)]
        ELSE IF Skipped(urlStr) THEN acc
        ELSE IF urlStr \in acc.visited THEN acc
        ELSE [acc EXCEPT !.visited = @ \cup {urlStr},
                         !.links = Append(@, urlStr)]

\* for _, a := range n.Attr
RECURSIVE VisitAttrs(_, _, _)
VisitAttrs(attrs, acc, baseURL) ==
    IF attrs = <<>> THEN acc
    ELSE VisitAttrs(Tail(attrs),
                    IF Head(attrs).key = "href"
                    THEN VisitHref(acc, Head(attrs).val, baseURL) ELSE acc,
                    baseURL)

\* traverse, and its loop over the children
RECURSIVE traverse(_, _, _)
RECURSIVE TraverseKids(_, _, _)
traverse(n, acc, baseURL) ==
    TraverseKids(n.kids,
                 IF n.type = "element" /\ n.data = "a"
                 THEN VisitAttrs(n.attr, acc, baseURL) ELSE acc,
                 baseURL)
TraverseKids(kids, acc, baseURL) ==
    IF kids = <<>> THEN acc
    ELSE TraverseKids(Tail(kids), traverse(Head(kids), acc, baseURL), baseURL)

extractLinksFromHTML(doc, baseURL) ==
    LET acc == traverse(doc, NoLinks, baseURL)
    IN  [links |-> acc.links, malformed |-> acc.malformed]

\* removing only a link that repeats the link right before it
removeDuplicateLinksAdjacent(list) ==
    LET keep == {i \in 1..Len(list) : i = 1 \/ list[i] # list[i - 1]}
    IN  [k \in 1..Cardinality(keep) |->
            list[CHOOSE i \in keep : Cardinality({j \in keep : j < i}) = k - 1]]

\* removeDuplicateLinks
RECURSIVE removeDuplicateLinks(_)
removeDuplicateLinks(list) ==
    IF list = <<>> THEN <<>>
    ELSE LET init == removeDuplicateLinks(SubSeq(list, 1, Len(list) - 1))
             link == list[Len(list)]
         IN  IF link \in Range(init) THEN init ELSE Append(init, link)

\* the regular expression https?://[^\s"']+ over a tokenised text
Separators == {" ", "\"", "'"}
\* the end of the match that starts at token i (0: no match starts there)
RECURSIVE RunEnd(_, _)
RunEnd(text, i) ==
    IF i < Len(text) /\ text[i + 1] \notin Separators
    THEN RunEnd(text, i + 1) ELSE i
MatchEnd(text, i) ==
    IF /\ i + 4 <= Len(text)
       /\ text[i] \in {"http", "https"}
       /\ SubSeq(text, i + 1, i + 3) = <<":", "/", "/">>
       /\ text[i + 4] \notin Separators
    THEN RunEnd(text, i + 4) ELSE 0
\* urlPattern.FindAllString(text, -1): leftmost matches, not overlapping
RECURSIVE FindAllFrom(_, _)
FindAllFrom(text, i) ==
    IF i > Len(text) THEN <<>>
    ELSE IF MatchEnd(text, i) = 0 THEN FindAllFrom(text, i + 1)
    ELSE <<SubSeq(text, i, MatchEnd(text, i))>> \o
         FindAllFrom(text, MatchEnd(text, i) + 1)
FindAllString(text) == FindAllFrom(text, 1)

\* AppendUnseen without the map of the matches seen
AppendAll(links, matches) == links \o matches

\* for _, match := range matches { if !seen[match] { append } }
RECURSIVE AppendUnseen(_, _)
AppendUnseen(links, matches) ==
    IF matches = <<>> THEN links
    ELSE AppendUnseen(IF Head(matches) \in Range(links) THEN links
                      ELSE Append(links, Head(matches)),
                      Tail(matches))

\* a decoded JSON value: interface{} holding a string, a number, a
\* []interface{} or a map[string]interface{}
JString(str) == [t |-> "string", str |-> str]
JNumber == [t |-> "number"]
JArray(items) == [t |-> "array", items |-> items]
JObject(members) == [t |-> "object", members |-> members]

Perms(S) ==
    {p \in [1..Cardinality(S) -> S] :
        \A i, j \in 1..Cardinality(S) : i # j => p[i] # p[j]}

\* the orders in which extract can reach the strings of a value: the items of
\* an array in index order, the members of a map in any order
RECURSIVE Visits(_)
RECURSIVE VisitsAll(_)
VisitsAll(values) ==
    IF values = <<>> THEN {<<>>}
    ELSE {a \o b : a \in Visits(Head(values)), b \in VisitsAll(Tail(values))}
Visits(v) ==
    IF v.t = "string" THEN {<<v.str>>}
    ELSE IF v.t = "array" THEN VisitsAll(v.items)
    ELSE IF v.t = "object"
    THEN UNION {VisitsAll([i \in 1..Len(p) |-> v.members[p[i]]]) :
                    p \in Perms(DOMAIN v.members)}
    ELSE {<<>>}

\* case string: of extract, over the strings in the order visited
RECURSIVE ExtractStrings(_, _)
ExtractStrings(strs, links) ==
    IF strs = <<>> THEN links
    ELSE ExtractStrings(Tail(strs), AppendUnseen(links, FindAllString(Head(strs))))

\* the link lists extractLinksFromJSON can return for a value
extractLinksFromJSON(data) ==
    {ExtractStrings(visit, <<>>) : visit \in Visits(data)}

\* ------------------------------------------------- inputs of the extractor
ExampleCom == <<"https", ":", "/", "/", "example.com">>
Page1      == ExampleCom \o <<"/", "page1">>
Page2      == ExampleCom \o <<"/", "page2">>
Page3      == ExampleCom \o <<"/", "page3">>
Page1Slash == Page1 \o <<"/">>
Section    == ExampleCom \o <<"#", "section">>
CdnX       == <<"http", ":", "/", "/", "cdn.io", "/", "x">>
IndexPage  == ExampleCom \o <<"/", "dir", "/", "index.html">>

HrefFragment   == <<"#", "section">>
HrefJavaScript == <<"javascript", ":", "void(0)">>
HrefMailto     == <<"mailto", ":", "test@example.com">>
HrefRelative   == <<"page1">>
HrefSchemeRel  == <<"/", "/", "cdn.io", "/", "x">>
HrefMalformed  == <<":", "foo">>
\* an absolute URL with a dot segment: https://example.com/dir/../page1
HrefDotted     == ExampleCom \o <<"/", "dir", "/", "..", "/", "page1">>
Hrefs == {Page1, Page1Slash, HrefRelative, HrefFragment, HrefJavaScript,
          HrefMailto, HrefSchemeRel, HrefMalformed, HrefDotted}

Anchor(href) == Node("element", "a", <<Attr("href", href)>>, <<>>)
\* <a name="section">, <link href=...>, <a class="x" href="page3">
NamedAnchor == Node("element", "a", <<Attr("name", <<"section">>)>>, <<>>)
LinkElem    == Node("element", "link", <<Attr("href", Page2)>>, <<>>)
ClassAnchor == Node("element", "a",
                    <<Attr("class", <<"x">>), Attr("href", <<"page3">>)>>, <<>>)
Elems == {Anchor(h) : h \in Hrefs} \cup {NamedAnchor, LinkElem, ClassAnchor}

\* the tree html.Parse builds: document, html, head, body
Document(kids) ==
    Node("document", "", <<>>,
         <<Node("element", "html", <<>>,
                <<Node("element", "head", <<>>, <<>>),
                  Node("element", "body", <<>>, kids)>>)>>)
\* every element inside the <div> that follows the one before
RECURSIVE Nested(_)
Nested(elems) ==
    IF elems = <<>> THEN <<>>
    ELSE <<Node("element", "div", <<>>, <<Head(elems)>> \o Nested(Tail(elems)))>>

MaxAnchors == 3
ElemSeqs(E) == UNION {[1..n -> E] : n \in 0..MaxAnchors}
\* the document of TestExtractLinksFromHTML
TestDoc ==
    Document(<<Anchor(Page1), Anchor(Page2), Anchor(HrefFragment),
               Anchor(HrefJavaScript), Anchor(HrefMailto), Anchor(<<"page3">>)>>)
\* the elements one after the other in <body>, or nested
Shapes == {"flat", "nested"}
Doc(elems, shape) ==
    Document(IF shape = "nested" THEN Nested(elems) ELSE elems)
BaseURLs == {Parse(ExampleCom), Parse(IndexPage), EmptyURL}

\* texts: words separated by blanks, a word sometimes quoted
MaxWords == 3
Words == {<<"see">>, Page1, Page1Slash, CdnX, <<"https", ":", "/", "/">>,
          <<"'">> \o Page1 \o <<"'">>}
RECURSIVE Join(_)
Join(words) ==
    IF words = <<>> THEN <<>>
    ELSE IF Len(words) = 1 THEN words[1]
    ELSE words[1] \o <<" ">> \o Join(Tail(words))
Texts == {Join(w) : w \in UNION {[1..n -> Words] : n \in 0..MaxWords}}

\* JSON values: strings and a number, in arrays and objects, two levels deep
JLeaves == {JString(Page1), JString(Join(<<Page1, CdnX>>)), JString(<<"see">>),
            JNumber}
JContainers(values) ==
    {JArray(items) : items \in UNION {[1..n -> values] : n \in 0..2}} \cup
    {JObject(members) :
        members \in UNION {[keys -> values] : keys \in SUBSET {"a", "b"}}}
JPairs(values) ==
    {JArray(<<v, leaf>>) : v \in values, leaf \in JLeaves} \cup
    {JObject([k \in {"a", "b"} |-> IF k = "a" THEN v ELSE leaf]) :
        v \in values, leaf \in JLeaves}
JValues == JLeaves \cup JContainers(JLeaves) \cup JPairs(JContainers(JLeaves))

\* the JSON text of a value (members in key order)
RECURSIVE Serialize(_)
RECURSIVE SerializeAll(_, _)
SerializeAll(keys, values) ==
    IF values = <<>> THEN <<>>
    ELSE (IF keys = <<>> THEN <<>> ELSE <<"\"", keys[1], "\"", ":">>) \o
         Serialize(values[1]) \o
         (IF Len(values) = 1 THEN <<>>
          ELSE <<",">> \o SerializeAll(IF keys = <<>> THEN <<>> ELSE Tail(keys),
                                       Tail(values)))
Serialize(v) ==
    IF v.t = "string" THEN <<"\"">> \o v.str \o <<"\"">>
    ELSE IF v.t = "array" THEN <<"[">> \o SerializeAll(<<>>, v.items) \o <<"]">>
    ELSE IF v.t = "object"
    THEN LET keys == IF DOMAIN v.members = {"a", "b"} THEN <<"a", "b">>
                     ELSE IF DOMAIN v.members = {} THEN <<>>
                     ELSE <<CHOOSE k \in DOMAIN v.members : TRUE>>
         IN  <<"{">> \o
             (IF keys = <<>> THEN <<>> ELSE
              SerializeAll(keys, [i \in 1..Len(keys) |-> v.members[keys[i]]]))
             \o <<"}">>
    ELSE <<"7">>

\* what a server answers, and what a file holds
HTMLBody(doc) == [kind |-> "html", doc |-> doc]
JSONBody(value) == [kind |-> "json", value |-> value]
TextBody(text) == [kind |-> "text", text |-> text]
Binary == [kind |-> "binary"]
PageElems == {Anchor(h) : h \in {Page1, Page1Slash, HrefRelative, HrefFragment,
                                 HrefMalformed}}
HTMLBodies == {HTMLBody(Document(e)) : e \in ElemSeqs(PageElems)} \cup
              {HTMLBody(TestDoc)}
JSONBodies == {JSONBody(v) : v \in JValues}
TextBodies == {TextBody(t) : t \in Texts}
OneOfEach  == {HTMLBody(TestDoc), JSONBody(JString(Page1)), TextBody(Page1),
               Binary}
Bodies == HTMLBodies \cup JSONBodies \cup TextBodies \cup {Binary}

\* html.Parse: bytes that hold no markup parse to a document without anchors
HTMLParse(body) ==
    IF body.kind = "html" THEN body.doc
    ELSE Document(<<Node("text", "", <<>>, <<>>)>>)
\* the bytes of a body, for the regular expression
Bytes(body) ==
    IF body.kind = "json" THEN Serialize(body.value)
    ELSE IF body.kind = "text" THEN body.text
    ELSE <<>>

\* strings.Contains(contentType, sub), for the four sub the code asks about
ContentTypes == {"text/html; charset=utf-8", "application/json",
                 "application/xml", "text/xml", "text/plain; charset=utf-8",
                 "image/png", "application/xhtml+xml", ""}
Contains(contentType, sub) ==
    \/ sub = "text/html" /\ contentType = "text/html; charset=utf-8"
    \/ sub = "text/plain" /\ contentType = "text/plain; charset=utf-8"
    \/ sub = contentType /\ sub # ""

\* http.DetectContentType: markup sniffs as HTML, JSON and other text as
\* plain text
DetectContentType(body) ==
    IF body.kind = "html" THEN "text/html; charset=utf-8"
    ELSE IF body.kind \in {"json", "text"} THEN "text/plain; charset=utf-8"
    ELSE "image/png"

StatusOK == 200
Page(status, contentType, body, url) ==
    [status |-> status, contentType |-> contentType, body |-> body, url |-> url]
\* the final URL of the request is the target, or IndexPage after a redirect;
\* status 0: the transport failed, there is no response
BodiesFor(contentType) ==
    IF Contains(contentType, "application/json") THEN JSONBodies \cup OneOfEach
    ELSE IF contentType \in {"text/html; charset=utf-8", "application/xml"}
    THEN HTMLBodies \cup OneOfEach
    ELSE OneOfEach
Pages == UNION {{Page(StatusOK, ct, b, u) :
                    b \in BodiesFor(ct), u \in {ExampleCom, IndexPage}} :
                ct \in ContentTypes}
         \cup {Page(st, "text/html; charset=utf-8", HTMLBody(TestDoc), ExampleCom) :
                  st \in {0, 204, 404}}
         \cup {Page(st, ct, Binary, ExampleCom) :
                  st \in {204, 404}, ct \in {"application/json", "image/png"}}
TargetURLs == {ExampleCom, <<"https", ":", "/", "/", "%zz">>}
\* no request is sent for a target that does not parse
PagesFor(targetURL) ==
    IF RequestOK(targetURL) THEN Pages ELSE {Page(0, "", Binary, targetURL)}

MaxFileSize == 10485760
File(exists, size, path, body) ==
    [exists |-> exists, size |-> size, path |-> path, body |-> body]
FilePaths == {<<"/", "tmp", "/", "x.html">>, <<"x.html">>,
              <<"/", "tmp", "/", "%zz">>}
Files == {File(TRUE, 1, path, b) : path \in FilePaths, b \in Bodies}
         \cup {File(TRUE, size, <<"x.html">>, b) :
                  size \in {0, MaxFileSize, MaxFileSize + 1}, b \in OneOfEach}
         \cup {File(FALSE, 0, <<"x.html">>, Binary)}

NoCall == [fn |-> "none"]
\* opened: the call has opened the file it was given (os.Open)
Returned(links, malformed, warning, err) ==
    [links |-> links, malformed |-> malformed, warning |-> warning, err |-> err,
     opened |-> FALSE]
Failure(err) == Returned(<<>>, <<>>, 0, err)

\* the hrefs of the anchors of a tree
RECURSIVE HrefsOf(_)
HrefsOf(n) ==
    (IF n.type = "element" /\ n.data = "a"
     THEN {n.attr[i].val : i \in {k \in 1..Len(n.attr) : n.attr[k].key = "href"}}
     ELSE {})
    \cup UNION {HrefsOf(n.kids[i]) : i \in 1..Len(n.kids)}

\* a direct call of extractLinksFromHTML
HTMLCall(doc, baseURL) ==
    /\ call' = [fn |-> "extractLinksFromHTML", doc |-> doc, baseURL |-> baseURL]
    /\ ret' = LET r == extractLinksFromHTML(doc, baseURL)
              IN  Returned(r.links, r.malformed, 0, "nil")
    /\ UNCHANGED dlVars

\* the content-type test passing every declared type
UnsupportedNever(contentType) == FALSE

\* the content-type test of ExtractLinksFromURL
Unsupported(contentType) ==
    /\ ~Contains(contentType, "text/html")
    /\ ~Contains(contentType, "application/json")
    /\ ~Contains(contentType, "application/xml")
    /\ ~Contains(contentType, "text/xml")

\* fmt.Errorf("server returned non-success status: %d %s", ...)
StatusError(status) ==
    "server returned non-success status: " \o ToString(status)
\* fmt.Errorf("unsupported content type: %s", contentType)
ContentTypeError(contentType) == "unsupported content type: " \o contentType

ExtractLinksFromURL(targetURL, page) ==
    /\ call' = [fn |-> "ExtractLinksFromURL", targetURL |-> targetURL,
                page |-> page]
    /\ IF ~RequestOK(targetURL) THEN ret' = Failure("creating request")
       ELSE IF page.status = 0 THEN ret' = Failure("fetching webpage")
       ELSE IF page.status # StatusOK
       THEN ret' = Failure(StatusError(page.status))
       ELSE IF Unsupported(page.contentType)
       THEN ret' = Failure(ContentTypeError(page.contentType))
       ELSE IF Contains(page.contentType, "application/json")
       THEN IF page.body.kind # "json" THEN ret' = Failure("parsing JSON")
            ELSE \E links \in extractLinksFromJSON(page.body.value) :
                    ret' = Returned(removeDuplicateLinks(links), <<>>, 0, "nil")
       ELSE LET r == extractLinksFromHTML(HTMLParse(page.body), Parse(page.url))
            IN  ret' = Returned(removeDuplicateLinks(r.links), <<>>,
                                Len(r.malformed), "nil")
    /\ UNCHANGED dlVars

\* a size that is equal to the ceiling is too large as well
TooLargeAtLeast(size) == size >= MaxFileSize

\* fileInfo.Size() > 10*1024*1024
TooLarge(size) == size > MaxFileSize

\* a result of the part of ExtractLinksFromFile that follows os.Open
Opened(r) == [r EXCEPT !.opened = TRUE]

ExtractLinksFromFile(file) ==
    /\ call' = [fn |-> "ExtractLinksFromFile", file |-> file]
    /\ LET contentType == DetectContentType(file.body)
           doc     == HTMLParse(file.body)
           baseURL == Parse(<<"file", ":", "/", "/">> \o file.path)
       IN
       IF ~file.exists THEN ret' = Failure("checking file")
       ELSE IF TooLarge(file.size)
       THEN ret' = Failure("file too large. Maximum size is 10MB")
       ELSE IF Contains(contentType, "text/html")
       THEN \* baseURL is nil when the path does not parse; resolving a
            \* reference without a scheme against it dereferences nil
            IF ~baseURL.ok /\ \E h \in HrefsOf(doc) :
                                  Parse(h).ok /\ Parse(h).scheme = ""
            THEN ret' = Opened(Failure("panic"))
            ELSE ret' = Opened(Returned(extractLinksFromHTML(doc, baseURL).links,
                                        <<>>, 0, "nil"))
       ELSE IF Contains(contentType, "application/json")
       THEN IF file.body.kind # "json"
            THEN ret' = Opened(Failure("parsing JSON"))
            ELSE \E links \in extractLinksFromJSON(file.body.value) :
                    ret' = Opened(Returned(links, <<>>, 0, "nil"))
       ELSE IF Contains(contentType, "text/plain")
       THEN ret' = Opened(Returned(
                       AppendUnseen(<<>>, FindAllString(Bytes(file.body))),
                       <<>>, 0, "nil"))
       ELSE ret' = Opened(Failure("unsupported file type"))
    /\ UNCHANGED dlVars

\* The extractor keeps no state from one call to the next: a behaviour makes
\* one call, with its inputs drawn here.
CallExtractLinksFromHTML ==
    /\ call = NoCall
    /\ \E baseURL \in BaseURLs :
          \/ \E elems \in ElemSeqs(Elems), shape \in Shapes :
                HTMLCall(Doc(elems, shape), baseURL)
          \/ HTMLCall(TestDoc, baseURL)

\* the value of TestExtractLinksFromJSON
TestJSON ==
    JObject([k \in {"url", "nested", "items"} |->
        IF k = "url" THEN JString(ExampleCom \o <<"/", "1">>)
        ELSE IF k = "nested"
        THEN JObject([u \in {"url"} |-> JString(ExampleCom \o <<"/", "2">>)])
        ELSE JArray(<<JString(ExampleCom \o <<"/", "3">>),
                      JObject([u \in {"url"} |->
                                  JString(ExampleCom \o <<"/", "4">>)])>>)])

\* a direct call of extractLinksFromJSON
JSONCall(data) ==
    /\ call' = [fn |-> "extractLinksFromJSON", data |-> data]
    /\ \E links \in extractLinksFromJSON(data) :
          ret' = Returned(links, <<>>, 0, "nil")
    /\ UNCHANGED dlVars

CallExtractLinksFromJSON ==
    /\ call = NoCall
    /\ \E data \in JValues \cup {TestJSON} : JSONCall(data)

CallExtractLinksFromURL ==
    /\ call = NoCall
    /\ \E targetURL \in TargetURLs :
          \E page \in PagesFor(targetURL) : ExtractLinksFromURL(targetURL, page)

CallExtractLinksFromFile ==
    /\ call = NoCall
    /\ \E file \in Files : ExtractLinksFromFile(file)

\* a direct call of removeDuplicateLinks, as TestRemoveDuplicateLinks makes
MaxLinks == 3
LinkLists ==
    UNION {[1..n -> {Page1, Page2, Page1Slash}] : n \in 0..MaxLinks}
CallRemoveDuplicateLinks ==
    /\ call = NoCall
    /\ \E links \in LinkLists :
          /\ call' = [fn |-> "removeDuplicateLinks", links |-> links]
          /\ ret' = Returned(removeDuplicateLinks(links), <<>>, 0, "nil")
    /\ UNCHANGED dlVars

ExtractNext ==
    \/ CallRemoveDuplicateLinks
    \/ CallExtractLinksFromHTML
    \/ CallExtractLinksFromJSON
    \/ CallExtractLinksFromURL
    \/ CallExtractLinksFromFile

\* the extractor alone: the working directory plays no part
ExtractInit == Init /\ DOMAIN dir = {}
SpecExtract == ExtractInit /\ [][ExtractNext]_vars

\* -------------------------------------------------- FetchGitHubReleases
GitHub == <<"https", ":", "/", "/", "github.com">>
RepoURLs == {GitHub,
             GitHub \o <<"/", "owner">>,
             GitHub \o <<"/", "owner", "/">>,
             GitHub \o <<"/", "owner", "/", "repo">>,
             GitHub \o <<"/", "owner", "/", "repo.git">>,
             GitHub \o <<"/", "owner", "/", "repo", "/", "releases">>,
             GitHub \o <<"/", "/", "owner", "/", "repo">>,
             <<"owner", "/", "repo">>,
             GitHub \o <<"/", "%zz", "/", "repo">>}

\* strings.TrimPrefix(path, "/")
TrimPrefixSlash(path) == IF HasPrefix(path, <<"/">>) THEN Tail(path) ELSE path
\* strings.TrimSuffix(repo, ".git"), for the names of the model
TrimSuffixGit(repo) == IF repo = "repo.git" THEN "repo" ELSE repo
\* strings.Split(strings.TrimPrefix(parsedURL.Path, "/"), "/"), as strings
PathParts(path) ==
    LET parts == Split(TrimPrefixSlash(path))
    IN  [i \in 1..Len(parts) |-> Concat(parts[i])]
\* fmt.Sprintf("https://api.github.com/repos/%s/%s/releases", user, repo)
ApiURL(user, repo) ==
    <<"https", ":", "/", "/", "api.github.com", "/", "repos", "/", user, "/",
      repo, "/", "releases">>

\* the release list the API answers with: per release, the
\* browser_download_url of each of its assets
MaxReleases == 2
MaxAssets == 2
AssetURLs == {"https://example.com/app.zip", "https://example.com/app.tar.gz"}
AssetLists == UNION {[1..n -> AssetURLs] : n \in 0..MaxAssets}
ReleaseLists == UNION {[1..n -> AssetLists] : n \in 0..MaxReleases}
\* a body is a release list, or bytes json.Unmarshal rejects (no JSON, a JSON
\* object, a list cut off by the 10 MB limit of the reader)
NoJSON == [kind |-> "invalid"]
ReleaseBody(releases) == [kind |-> "releases", releases |-> releases]

\* a response: status 0 stands for a transport error; remaining and reset are
\* the headers X-RateLimit-Remaining and X-RateLimit-Reset ("" when absent)
ApiResponse(status, remaining, reset, body) ==
    [status |-> status, remaining |-> remaining, reset |-> reset, body |-> body]
ResetTime == "1700000000"
ApiResponses ==
    {ApiResponse(StatusOK, "59", ResetTime, ReleaseBody(r)) : r \in ReleaseLists}
    \cup {ApiResponse(st, rem, ResetTime, body) :
              st \in {0, StatusOK, 403, 404}, rem \in {"0", "59", ""},
              body \in {NoJSON, ReleaseBody(<<<<"https://example.com/app.zip">>>>)}}

FetchErr(kind, info) == [kind |-> kind, info |-> info]
NoErr == FetchErr("nil", <<>>)
\* requested: the call sent its HTTP request, to apiURL
Fetched(links, err, apiURL) ==
    [links |-> links, err |-> err, requested |-> apiURL # <<>>,
     apiURL |-> apiURL]

\* the flattening that keeps one asset of a release
RECURSIVE FlattenFirstAsset(_)
FlattenFirstAsset(releases) ==
    IF releases = <<>> THEN <<>>
    ELSE (IF Head(releases) = <<>> THEN <<>> ELSE <<Head(releases)[1]>>)
         \o FlattenFirstAsset(Tail(releases))

\* for _, release := range releases { for _, asset := range release.Assets
RECURSIVE Flatten(_)
Flatten(releases) ==
    IF releases = <<>> THEN <<>>
    ELSE Head(releases) \o Flatten(Tail(releases))

\* an empty list that passes for a result
NoAssetsNever(downloadLinks) == FALSE

\* len(downloadLinks) == 0
NoAssets(downloadLinks) == Len(downloadLinks) = 0

\* the rate limit taken from the status alone
RateLimitedByStatus(response) == response.status = 403

\* resp.StatusCode == 403 && resp.Header.Get("X-RateLimit-Remaining") == "0"
RateLimited(response) == response.status = 403 /\ response.remaining = "0"

FetchGitHubReleases(repoURL, response) ==
    /\ call' = [fn |-> "FetchGitHubReleases", repoURL |-> repoURL,
                response |-> response]
    /\ LET parsedURL == Parse(repoURL)
           pathParts == PathParts(parsedURL.path)
           user   == pathParts[1]
           repo   == TrimSuffixGit(pathParts[2])
           apiURL == ApiURL(user, repo)
           downloadLinks == Flatten(response.body.releases)
       IN
       IF ~parsedURL.ok THEN ret' = Fetched(<<>>, FetchErr("invalid URL", <<>>), <<>>)
       ELSE IF Len(pathParts) < 2
       THEN ret' = Fetched(<<>>, FetchErr("invalid GitHub repository URL", <<>>),
                           <<>>)
       ELSE IF ~RequestOK(apiURL)
       THEN ret' = Fetched(<<>>, FetchErr("creating request", <<>>), <<>>)
       ELSE IF response.status = 0
       THEN ret' = Fetched(<<>>, FetchErr("fetching GitHub releases", <<>>), apiURL)
       ELSE IF RateLimited(response)
       THEN ret' = Fetched(<<>>, FetchErr("rate limit", <<response.reset>>), apiURL)
       ELSE IF response.status # StatusOK
       THEN ret' = Fetched(<<>>, FetchErr("status", <<response.status>>), apiURL)
       ELSE IF response.body.kind # "releases"
       THEN ret' = Fetched(<<>>, FetchErr("parsing GitHub response", <<>>), apiURL)
       ELSE IF NoAssets(downloadLinks)
       THEN ret' = Fetched(<<>>, FetchErr("no release assets", <<user, repo>>),
                           apiURL)
       ELSE ret' = Fetched(downloadLinks, NoErr, apiURL)
    /\ UNCHANGED dlVars

\* FetchGitHubReleases keeps no state: a behaviour makes one call
CallFetchGitHubReleases ==
    /\ call = NoCall
    /\ \E repoURL \in RepoURLs, response \in ApiResponses :
          FetchGitHubReleases(repoURL, response)

FetchNext == CallFetchGitHubReleases
SpecFetch == ExtractInit /\ [][FetchNext]_vars

\* ------------------------------------------------- the names of the files
\* a download of one URL, in either mode: a URL that ends in a file name, a
\* URL that ends in "/", one whose path is "/" and one that has no path
UrlDir    == <<"https", ":", "/", "/", "h", "/", "dir", "/">>
UrlRoot   == <<"https", ":", "/", "/", "h", "/">>
UrlNoPath == <<"https", ":", "/", "/", "h">>
NameBatches == {<<url>> : url \in {UrlA, UrlDir, UrlRoot, UrlNoPath}}
NameNext ==
    \/ \E list \in NameBatches : SimStart(list)
    \/ \E j \in Jobs : Worker(j)
    \/ SimReturn
    \/ \E list \in NameBatches : SeqStart(list)
    \/ Deadline
    \/ SeqLoop
    \/ \E j \in Jobs : DownloadFile(j)
    \/ SeqReturn
SpecName == Init /\ [][NameNext]_vars

\* ================================================================= claims
\* the workers that hold a ticket
InFlight == {j \in Jobs : pc[j] \in {"lock", "stat", "probe", "unlock",
                 "request", "create", "copy", "remove", "report", "exit"}}
\* the jobs of the batch whose download returned an error
Failed == {j \in 1..N : outcome[j] \notin {"ok", "none"}}
\* the worker has left the filename critical section
Named(j) == pc[j] \in {"request", "create", "copy", "remove", "report",
                       "exit", "done"}
\* DownloadFile is running for job j, or has just returned
InCall(j) == pc[j] \in {"request", "stat", "create", "copy", "remove", "exit"}
Count(msgs, m) == Cardinality({k \in 1..Len(msgs) : msgs[k] = m})

\* C1: during a concurrent batch the number of workers that hold a ticket
\* never exceeds the ceiling read from maxConcurrentDownloads at its start.
C1_CeilingRespected ==
    phase = "sim" =>
        /\ Cardinality(InFlight) <= maxConcurrent
        /\ maxConcurrent = maxConcurrentDownloads
C1_Witness ==
    /\ phase = "sim"
    /\ Cardinality(InFlight) = maxConcurrent
    /\ \E j \in Jobs : pc[j] = "acquire"

\* C2: with overwrite disabled, two workers whose URLs derive the same
\* filename end with distinct final filenames and never have the same file
\* open for writing.
C2_DistinctFiles ==
    (phase \in {"sim", "done"} /\ ~allowOverwriteFiles) =>
        \A j1, j2 \in 1..N :
            (j1 # j2 /\ Base(urls[j1]) = Base(urls[j2])) =>
                /\ (Named(j1) /\ Named(j2)) => filename[j1] # filename[j2]
                /\ (fh[j1] # 0 /\ fh[j2] # 0) => fh[j1] # fh[j2]

\* C3 as stated: a sequential batch that did not hit its deadline returns
\* nil exactly when no item failed, and otherwise the aggregate error naming
\* the number of failed items and the number of items.
C3_Original ==
    (phase = "done" /\ result.kind # "timeout") =>
        /\ result = Nil <=> Failed = {}
        /\ result # Nil => result = Err("aggregate", Cardinality(Failed), N, <<>>)
\* C3 amended: the same for a non-empty list; an empty list is refused with
\* the "no URLs to download" error.
C3_FailedCount ==
    (phase = "done" /\ result.kind # "timeout") =>
        IF N = 0 THEN result = NoURLs
        ELSE /\ result = Nil <=> Failed = {}
             /\ result # Nil =>
                    result = Err("aggregate", Cardinality(Failed), N, <<>>)
C3_Witness ==
    /\ phase = "done"
    /\ N = 2
    /\ Cardinality(Failed) = 1
    /\ result = Err("aggregate", 1, 2, <<>>)

\* C4 as stated: a concurrent batch returns nil exactly when no worker
\* failed, and otherwise one aggregate error whose count is the number of
\* failed workers and which holds every failed worker's message once.
C4_Original ==
    phase = "done" =>
        /\ result = Nil <=> Failed = {}
        /\ result # Nil =>
              /\ result.kind = "aggregate"
              /\ result.count = Cardinality(Failed)
              /\ Len(result.msgs) = Cardinality(Failed)
              /\ \A j \in Failed : Count(result.msgs, ErrMsg(j, outcome[j])) = 1
\* C4 amended: the same for a non-empty list; an empty list is refused with
\* the "no URLs to download" error.
C4_Aggregate ==
    phase = "done" =>
        IF N = 0 THEN result = NoURLs
        ELSE /\ result = Nil <=> Failed = {}
             /\ result # Nil =>
                   /\ result.kind = "aggregate"
                   /\ result.count = Cardinality(Failed)
                   /\ Len(result.msgs) = Cardinality(Failed)
                   /\ \A j \in Failed :
                          Count(result.msgs, ErrMsg(j, outcome[j])) = 1
C4_Witness ==
    /\ phase = "done"
    /\ result.kind = "aggregate"
    /\ result.count = 2
    /\ result.msgs[1].job > result.msgs[2].job
    /\ result.msgs[1].kind = "write"

\* the call for job j found a file of the derived name, overwrite disabled
FoundExisting(j) ==
    /\ phase = "seq" /\ InCall(j)
    /\ ~allowOverwriteFiles
    /\ Base(urls[j]) \in DOMAIN before.dir
Untouched(name) ==
    Content(dir, disk, name) = Content(before.dir, before.disk, name)

\* C5 as stated: with overwrite disabled, DownloadFile on a URL whose derived
\* filename exists returns the "already exists" error and leaves the file's
\* contents as they were.
C5_Original ==
    \A j \in Jobs :
        FoundExisting(j) =>
            /\ Untouched(Base(urls[j]))
            /\ pc[j] = "exit" => outcome[j] = "exists"
\* C5 amended: the call always returns an error and leaves the file's
\* contents as they were; the error is "already exists" whenever the request
\* got a 2xx response of acceptable declared length, and otherwise the
\* request, transport, status or size error met before the filename check.
C5_ExistingKept ==
    \A j \in Jobs :
        FoundExisting(j) =>
            /\ Untouched(Base(urls[j]))
            /\ pc[j] = "exit" =>
                  /\ outcome[j] \in {"request", "transport", "status",
                                     "toolarge", "exists"}
                  /\ (resp[j].status = 200 /\
                          resp[j].length <= LargeFileCeiling) =>
                         outcome[j] = "exists"
C5_Witness ==
    \E j \in Jobs :
        /\ FoundExisting(j)
        /\ pc[j] = "exit"
        /\ outcome[j] = "exists"
        /\ Content(dir, disk, Base(urls[j])) = PreContent

\* C6: in both modes, once a job's write error has been reported no file of
\* the directory holds anything that job wrote.
C6_NoPartialFile ==
    \A j \in Jobs :
        outcome[j] = "write" =>
            \A n \in DOMAIN dir : j \notin Range(disk[dir[n]])
C6_Witness ==
    \E j \in Jobs :
        /\ phase = "sim"
        /\ outcome[j] = "write"
        /\ off[j] = 1
        /\ ~Exists(filename[j])

\* C7: in both modes a response whose declared length exceeds the ceiling
\* ends the job in an error before any file is created or written.
C7_LargeRejected ==
    \A j \in Jobs :
        resp[j].length > LargeFileCeiling =>
            /\ pc[j] \in {"request", "exit"}
            /\ fh[j] = 0
            /\ pc[j] = "exit" => outcome[j] # "ok"

\* ------------------------------------------------------------ extraction
NoDuplicates(list) ==
    \A i, j \in 1..Len(list) : i # j => list[i] # list[j]

\* the string an href resolves to under a base
Resolved(href, baseURL) == URLString(ResolveReference(baseURL, Parse(href)))
\* the strings of a JSON value
RECURSIVE StringsOf(_)
StringsOf(v) ==
    IF v.t = "string" THEN {v.str}
    ELSE IF v.t = "array" THEN UNION {StringsOf(v.items[i]) : i \in 1..Len(v.items)}
    ELSE IF v.t = "object"
    THEN UNION {StringsOf(v.members[k]) : k \in DOMAIN v.members}
    ELSE {}
\* every string the input of a call offers as a link
OfferedHTML(doc, baseURL) ==
    LET all == {Resolved(h, baseURL) : h \in {g \in HrefsOf(doc) : Parse(g).ok}}
    IN  {str \in all : ~Skipped(str)}
OfferedJSON(value) == UNION {Range(FindAllString(str)) : str \in StringsOf(value)}
Offered ==
    IF call.fn = "ExtractLinksFromURL"
    THEN IF Contains(call.page.contentType, "application/json")
         THEN OfferedJSON(call.page.body.value)
         ELSE OfferedHTML(HTMLParse(call.page.body), Parse(call.page.url))
    ELSE IF call.fn = "ExtractLinksFromFile"
    THEN IF call.file.body.kind = "html"
         THEN OfferedHTML(call.file.body.doc,
                          Parse(<<"file", ":", "/", "/">> \o call.file.path))
         ELSE Range(FindAllString(Bytes(call.file.body)))
    ELSE {}

\* C8: a link list returned by ExtractLinksFromURL or ExtractLinksFromFile
\* holds no string twice, and it holds every string the input offers: two
\* URLs that differ in a character, such as a trailing slash, are both kept.
C8_NoDuplicates ==
    (call.fn \in {"ExtractLinksFromURL", "ExtractLinksFromFile"} /\ ret.err = "nil")
        => /\ NoDuplicates(ret.links)
           /\ Range(ret.links) = Offered
C8_Witness ==
    /\ call.fn = "ExtractLinksFromFile"
    /\ call.file.body.kind = "html"
    /\ {Page1, Page1Slash} \subseteq HrefsOf(call.file.body.doc)
    /\ ret.links = <<Page1, Page1Slash>>
    /\ call.file.body.doc =
           Document(<<Anchor(Page1), Anchor(Page1Slash), Anchor(Page1)>>)

\* the tree without the anchors that have an href of the set drop
RECURSIVE Without(_, _)
RECURSIVE WithoutAll(_, _)
WithoutAll(kids, drop) ==
    IF kids = <<>> THEN <<>>
    ELSE (IF /\ Head(kids).type = "element" /\ Head(kids).data = "a"
             /\ HrefsOf([Head(kids) EXCEPT !.kids = <<>>]) \cap drop # {}
          THEN <<>> ELSE <<Without(Head(kids), drop)>>)
         \o WithoutAll(Tail(kids), drop)
Without(n, drop) == [n EXCEPT !.kids = WithoutAll(n.kids, drop)]

\* C9, as claimed: no anchor whose href starts with javascript:, mailto: or #
\* contributes a link -- the output is that of the document without them.
C9_Original ==
    call.fn = "extractLinksFromHTML" =>
        ret.links =
            extractLinksFromHTML(
                Without(call.doc, {h \in HrefsOf(call.doc) : Skipped(h)}),
                call.baseURL).links
\* C9, amended: no anchor whose href starts with javascript: or mailto:
\* contributes a link; an anchor whose href starts with # and parses is
\* resolved first and contributes the resolved string unless that string
\* itself starts with #, javascript: or mailto:.
C9_Filtered ==
    call.fn = "extractLinksFromHTML" =>
        /\ LET drop == {h \in HrefsOf(call.doc) :
                            \/ HasPrefix(h, <<"javascript", ":">>)
                            \/ HasPrefix(h, <<"mailto", ":">>)}
           IN  drop # {} =>
                  ret.links =
                     extractLinksFromHTML(Without(call.doc, drop),
                                          call.baseURL).links
        /\ \A h \in HrefsOf(call.doc) :
              (HasPrefix(h, <<"#">>) /\ Parse(h).ok) =>
                  (Resolved(h, call.baseURL) \in Range(ret.links)
                      <=> ~Skipped(Resolved(h, call.baseURL)))
C9_Witness ==
    /\ call.fn = "extractLinksFromHTML"
    /\ call.baseURL = Parse(ExampleCom)
    /\ {HrefFragment, HrefJavaScript, HrefMailto} \subseteq HrefsOf(call.doc)
    /\ ret.links = <<Section>>

\* C10: the filter is applied to the resolved URL: under base
\* https://example.com, href #section yields https://example.com#section, and
\* the document of the test yields exactly its 4 links and no malformed href.
C10_FragmentResolved ==
    (call.fn = "extractLinksFromHTML" /\ call.baseURL = Parse(ExampleCom)) =>
        /\ HrefFragment \in HrefsOf(call.doc) => Section \in Range(ret.links)
        /\ call.doc = TestDoc =>
              /\ Len(ret.links) = 4
              /\ Range(ret.links) = {Page1, Page2, Page3, Section}
              /\ Len(ret.malformed) = 0
C10_Witness ==
    /\ call.fn = "extractLinksFromHTML"
    /\ call.baseURL = Parse(ExampleCom)
    /\ call.doc = TestDoc
    /\ Len(ret.links) = 4

\* the hrefs of a tree that url.Parse rejects
MalformedOf(doc) == {h \in HrefsOf(doc) : ~Parse(h).ok}

\* C11: an href that does not parse is recorded as malformed and is no link;
\* the links are those of the document without the malformed anchors, and
\* ExtractLinksFromURL on such a page succeeds, counting them in a warning.
C11_MalformedSkipped ==
    /\ call.fn = "extractLinksFromHTML" =>
          LET bad == MalformedOf(call.doc)
          IN  /\ Range(ret.malformed) = bad
              /\ Range(ret.links) \cap bad = {}
              /\ bad # {} =>
                    ret.links =
                       extractLinksFromHTML(Without(call.doc, bad),
                                            call.baseURL).links
              /\ Range(ret.links) = OfferedHTML(call.doc, call.baseURL)
    /\ ( /\ call.fn = "ExtractLinksFromURL"
         /\ RequestOK(call.targetURL)
         /\ call.page.status = StatusOK
         /\ call.page.contentType = "text/html; charset=utf-8" ) =>
          /\ ret.err = "nil"
          /\ ret.warning > 0 <=> MalformedOf(HTMLParse(call.page.body)) # {}
          /\ Range(ret.links) =
                OfferedHTML(HTMLParse(call.page.body), Parse(call.page.url))
C11_Witness ==
    /\ call.fn = "extractLinksFromHTML"
    /\ call.doc = Document(<<Anchor(Page1), Anchor(HrefMalformed),
                             Anchor(Page1Slash)>>)
    /\ ret.links = <<Page1, Page1Slash>>
    /\ ret.malformed = <<HrefMalformed>>

\* hrefs that are accepted and name their host themselves
IsAbsolute(href) ==
    Parse(href).ok /\ Parse(href).scheme \notin {"", "javascript", "mailto"}
IsSchemeRelative(href) == Parse(href).ok /\ HasPrefix(href, <<"/", "/">>)
\* a relative reference is joined with the base
RelativeJoined ==
    /\ (call.baseURL = Parse(ExampleCom) /\ <<"page3">> \in HrefsOf(call.doc))
          => Page3 \in Range(ret.links)
    /\ (call.baseURL = Parse(ExampleCom) /\ HrefRelative \in HrefsOf(call.doc))
          => Page1 \in Range(ret.links)
    /\ (call.baseURL = Parse(IndexPage) /\ HrefRelative \in HrefsOf(call.doc))
          => ExampleCom \o <<"/", "dir", "/", "page1">> \in Range(ret.links)

\* C12, as claimed: relative references are joined with the base, absolute
\* and scheme-relative references appear in the output unchanged.
C12_Original ==
    (call.fn = "extractLinksFromHTML" /\ call.baseURL # EmptyURL) =>
        /\ RelativeJoined
        /\ \A h \in HrefsOf(call.doc) :
              (IsAbsolute(h) \/ IsSchemeRelative(h)) => h \in Range(ret.links)
\* C12, amended: relative references are joined with the base; a
\* scheme-relative reference takes the scheme of the base; an absolute
\* reference keeps scheme, host and fragment and loses the dot segments of its
\* path, so it is unchanged only when it has none.
C12_Resolved ==
    (call.fn = "extractLinksFromHTML" /\ call.baseURL # EmptyURL) =>
        /\ RelativeJoined
        /\ \A h \in HrefsOf(call.doc) :
              /\ IsSchemeRelative(h) =>
                    /\ <<call.baseURL.scheme, ":">> \o h \in Range(ret.links)
                    /\ h \notin Range(ret.links)
              /\ (IsAbsolute(h) /\ ".." \notin Range(h)) => h \in Range(ret.links)
              /\ h = HrefDotted =>
                    /\ Page1 \in Range(ret.links)
                    /\ h \notin Range(ret.links)
C12_Witness ==
    /\ call.fn = "extractLinksFromHTML"
    /\ call.baseURL = Parse(ExampleCom)
    /\ call.doc = Document(<<Anchor(HrefSchemeRel), ClassAnchor,
                             Anchor(HrefDotted)>>)
    /\ ret.links = <<<<"https", ":">> \o HrefSchemeRel, Page3, Page1>>

\* C13: extractLinksFromJSON returns the matches of the pattern in the
\* strings of the value, at any depth, each exactly once and nothing else,
\* whatever the order in which the members of an object are visited.
C13_EveryMatchOnce ==
    call.fn = "extractLinksFromJSON" =>
        /\ Range(ret.links) = OfferedJSON(call.data)
        /\ NoDuplicates(ret.links)
        /\ call.data = TestJSON =>
              /\ Len(ret.links) = 4
              /\ Range(ret.links) =
                    {ExampleCom \o <<"/", d>> : d \in {"1", "2", "3", "4"}}
\* two levels deep, a string with two matches, one of them met a second time,
\* and the members visited in the order b, a
C13_Witness ==
    /\ call.fn = "extractLinksFromJSON"
    /\ call.data =
          JObject([k \in {"a", "b"} |->
              IF k = "a" THEN JArray(<<JString(Join(<<Page1, CdnX>>)), JNumber>>)
              ELSE JString(Page1)])
    /\ ret.links = <<Page1, CdnX>>
    /\ Join(<<Page1, CdnX>>) # Page1

\* C14: a file larger than the 10 MB ceiling is refused with the error that
\* names the ceiling, without links and before the file is opened; a file of
\* exactly the ceiling is not refused for its size.
C14_LargeFileRefused ==
    (call.fn = "ExtractLinksFromFile" /\ call.file.exists) =>
        /\ call.file.size > MaxFileSize =>
              /\ ret.err = "file too large. Maximum size is 10MB"
              /\ ret.links = <<>>
              /\ ~ret.opened
        /\ call.file.size <= MaxFileSize =>
              /\ ret.err # "file too large. Maximum size is 10MB"
              /\ ret.opened
C14_Witness ==
    /\ call.fn = "ExtractLinksFromFile"
    /\ call.file.size = MaxFileSize + 1
    /\ call.file.body = HTMLBody(TestDoc)
    /\ ret.err = "file too large. Maximum size is 10MB"
    /\ ~ret.opened

\* ---------------------------------------------------- FetchGitHubReleases
\* the request was sent and answered 200 with a release list that decodes
Decoded ==
    /\ ret.requested
    /\ call.response.status = StatusOK
    /\ call.response.body.kind = "releases"

\* C15: a release list that decodes and holds no asset (no release, or
\* releases without assets) gives the "no release assets found" error, never
\* an empty list with a nil error; no other failure gives that error.
C15_NoAssetsError ==
    call.fn = "FetchGitHubReleases" =>
        /\ ( /\ Decoded
             /\ \A i \in 1..Len(call.response.body.releases) :
                   call.response.body.releases[i] = <<>> )
              => ret.err.kind = "no release assets" /\ ret.links = <<>>
        /\ ret.err = NoErr => ret.links # <<>>
        /\ ret.err.kind = "no release assets" => Decoded
C15_Witness ==
    /\ call.fn = "FetchGitHubReleases"
    /\ call.response.status = StatusOK
    /\ call.response.body = ReleaseBody(<<<<>>, <<>>>>)
    /\ ret.requested
    /\ ret.err = FetchErr("no release assets", <<"owner", "repo">>)

\* the non-empty segments of the path of the repository URL
NonEmptyParts(repoURL) ==
    SelectSeq(PathParts(Parse(repoURL).path), LAMBDA part : part # "")

\* C16: owner and repo are the first two non-empty path segments, the repo
\* without a trailing .git; a URL with fewer than two non-empty segments is
\* refused with the input error before any HTTP request is sent.
C16_OwnerRepo ==
    (call.fn = "FetchGitHubReleases" /\ Parse(call.repoURL).ok) =>
        IF Len(NonEmptyParts(call.repoURL)) < 2
        THEN /\ ret.err.kind = "invalid GitHub repository URL"
             /\ ~ret.requested
        ELSE /\ ret.requested
             /\ ret.apiURL = ApiURL(NonEmptyParts(call.repoURL)[1],
                                    TrimSuffixGit(NonEmptyParts(call.repoURL)[2]))

\* C17: an answered request gives the rate-limit error, with the reset time
\* reported, exactly when the status is 403 and the remaining quota is "0";
\* every other status that is not 200 gives the status error.
C17_RateLimit ==
    (call.fn = "FetchGitHubReleases" /\ ret.requested /\ call.response.status # 0)
    => /\ ret.err.kind = "rate limit"
             <=> (call.response.status = 403 /\ call.response.remaining = "0")
       /\ ret.err.kind = "rate limit" => ret.err.info = <<call.response.reset>>
       /\ ( /\ call.response.status # StatusOK
            /\ ~(call.response.status = 403 /\ call.response.remaining = "0") )
             => ret.err = FetchErr("status", <<call.response.status>>)
C17_Witness ==
    /\ call.fn = "FetchGitHubReleases"
    /\ call.response.status = 403
    /\ call.response.remaining = "0"
    /\ ret.requested
    /\ ret.err = FetchErr("rate limit", <<ResetTime>>)

\* the number of assets of the releases before release i
RECURSIVE AssetsBefore(_, _)
AssetsBefore(releases, i) ==
    IF i = 1 THEN 0 ELSE AssetsBefore(releases, i - 1) + Len(releases[i - 1])

\* C18: on success the list returned holds the URL of asset k of release i at
\* the position that release order, then asset order, gives it, and nothing
\* else.
C18_FlatInOrder ==
    (call.fn = "FetchGitHubReleases" /\ ret.err = NoErr) =>
        LET releases == call.response.body.releases
        IN  /\ Len(ret.links) = AssetsBefore(releases, Len(releases) + 1)
            /\ \A i \in 1..Len(releases) : \A k \in 1..Len(releases[i]) :
                  ret.links[AssetsBefore(releases, i) + k] = releases[i][k]
C18_Witness ==
    /\ call.fn = "FetchGitHubReleases"
    /\ call.response.body =
          ReleaseBody(<<<<"https://example.com/app.zip",
                          "https://example.com/app.tar.gz">>,
                        <<"https://example.com/app.tar.gz">>>>)
    /\ ret.links = <<"https://example.com/app.zip",
                     "https://example.com/app.tar.gz",
                     "https://example.com/app.tar.gz">>
    /\ ret.err = NoErr

\* C19: the concurrency ceiling is at least 1 after any sequence of
\* SetMaxConcurrent calls: a call with a value of 1 or more makes that value
\* the ceiling, a call with zero or a negative value leaves the ceiling as
\* it was.
SetMaxConcurrentStep ==
    /\ phase = "config"
    /\ call'.fn = "SetMaxConcurrent"
C19_CeilingAtLeastOne ==
    /\ [](maxConcurrentDownloads >= 1)
    /\ [][SetMaxConcurrentStep =>
            maxConcurrentDownloads' = IF call'.max >= 1
                                      THEN call'.max
                                      ELSE maxConcurrentDownloads]_vars
\* a rejected value arrives after an accepted one and the accepted one stays
C19_Witness ==
    /\ call.fn = "SetMaxConcurrent"
    /\ call.max < 1
    /\ maxConcurrentDownloads # DefaultMaxConcurrent

\* C20: DownloadFiles checks the deadline of the batch before each item.
\* Once the deadline has passed no item is started any more, and a call that
\* comes to an item after the deadline returns the timeout error X/N, N the
\* size of the batch and X the number of items DownloadFile has returned
\* for, with or without an error; a call that returns with an item left
\* unstarted returns that error.
Started(j)  == pc[j] # "idle"
Finished(j) == pc[j] = "done"
StartsItem  == \E j \in Jobs : ~Started(j) /\ pc'[j] # "idle"
C20_BatchDeadline ==
    /\ [](result.kind = "timeout" =>
            /\ expired
            /\ phase = "done"
            /\ result.total = N
            /\ result.count = Cardinality({j \in 1..N : Finished(j)})
            /\ \A j \in 1..N : Started(j) <=> Finished(j))
    /\ [](phase = "done" /\ (\E j \in 1..N : ~Started(j)) =>
            result.kind = "timeout")
    /\ [][expired => ~StartsItem]_vars
\* the deadline passes after an item has failed and before the next one
C20_Witness ==
    /\ result.kind = "timeout"
    /\ result.count >= 1
    /\ failedCount >= 1
    /\ result.count < N

\* C21: DownloadFiles attempts the URLs in input order and one at a time:
\* item i+1 is not started before item i has returned, an item that has
\* returned is not started again, and an item that failed does not keep the
\* later ones from being attempted -- a call that returns without the
\* deadline having passed has attempted every URL of the list.
Running(j) == Started(j) /\ ~Finished(j)
C21_InOrderAll ==
    /\ [](phase \in {"seq", "done"} /\ call.fn = "DownloadFiles" =>
            /\ Cardinality({j \in Jobs : Running(j)}) <= 1
            /\ \A j \in Jobs : Started(j) =>
                   /\ j <= N
                   /\ \A k \in 1..(j - 1) : Finished(k)
            /\ \A j \in Jobs :
                   pc[j] \in {"stat", "create", "copy", "remove"} =>
                      filename[j] = Base(urls[j])
            /\ \A j \in Jobs : Finished(j) => outcome[j] # "none"
            /\ (phase = "done" /\ ~expired) =>
                   \A j \in 1..N : Finished(j))
    /\ [][call.fn = "DownloadFiles" =>
            \A j \in Jobs : (Finished(j) => Finished(j)')
                           /\ (Started(j) => Started(j)')]_vars
\* the first item fails and the second is downloaded all the same
C21_Witness ==
    /\ call.fn = "DownloadFiles"
    /\ phase = "done"
    /\ ~expired
    /\ N = 2
    /\ outcome[1] \notin {"ok", "none"}
    /\ outcome[2] = "ok"

\* the declared types of the model that are HTML, JSON or of the XML family
MarkupTypes == {"text/html; charset=utf-8", "application/json",
                "application/xml", "text/xml", "application/xhtml+xml"}
\* C22: ExtractLinksFromURL goes on to the body only if the status is 200
\* and the declared content type is HTML, JSON or of the XML family.  For
\* every other status the result is the error that carries the status, and
\* for status 200 with any other content type it is the "unsupported
\* content type" error; both come without links and are the same whatever
\* the body holds, a body that would not parse included.
C22_StatusAndType ==
    ( /\ call.fn = "ExtractLinksFromURL"
      /\ RequestOK(call.targetURL)
      /\ call.page.status # 0 ) =>
        /\ call.page.status # StatusOK =>
              ret = Failure("server returned non-success status: "
                            \o ToString(call.page.status))
        /\ ( /\ call.page.status = StatusOK
             /\ call.page.contentType \notin MarkupTypes ) =>
              ret = Failure("unsupported content type: "
                            \o call.page.contentType)
        /\ ret.err \in {"nil", "parsing JSON"} =>
              /\ call.page.status = StatusOK
              /\ call.page.contentType \in MarkupTypes
\* a 404 that declares JSON and carries a body that is no JSON
C22_Witness ==
    /\ call.fn = "ExtractLinksFromURL"
    /\ call.page = Page(404, "application/json", Binary, ExampleCom)
    /\ ret.err = "server returned non-success status: 404"
    /\ ret.links = <<>>

\* C23: a worker of DownloadFilesSimultaneously takes its ticket before its
\* request and gives it back after its file write has ended.  The tickets
\* in the semaphore are those of the workers between the two; a ticket goes
\* back one at a time, from a worker that has taken one of its exit paths
\* and has closed its file, and such a worker takes no further step; when
\* the batch has returned every worker has finished and no ticket is held.
Releases(j) == pc[j] = "exit" /\ pc'[j] = "done"
C23_TicketOnce ==
    /\ [](call.fn = "DownloadFilesSimultaneously" =>
            /\ sem = Cardinality(InFlight)
            /\ \A j \in Jobs : (fh[j] # 0 \/ resp[j] # NoResp) => j \in InFlight
            /\ phase = "done" =>
                   /\ sem = 0
                   /\ \A j \in 1..N : Finished(j) /\ outcome[j] # "none")
    /\ [][call.fn = "DownloadFilesSimultaneously" =>
            /\ sem' < sem =>
                   /\ sem' = sem - 1
                   /\ \E j \in Jobs : /\ Releases(j)
                                       /\ outcome[j] # "none"
                                       /\ fh'[j] = 0
            /\ \A j \in Jobs : Releases(j) => sem' = sem - 1
            /\ \A j \in Jobs : Finished(j) => Finished(j)']_vars
\* one worker could not create its file, the other's write failed
C23_Witness ==
    /\ call.fn = "DownloadFilesSimultaneously"
    /\ phase = "done"
    /\ sem = 0
    /\ N = 2
    /\ outcome[1] = "create"
    /\ outcome[2] = "write"

\* C24: DownloadFilesSimultaneously returns only after all of its workers
\* have finished, and, every request and every write coming to an end, a
\* batch that has started returns, whatever the ceiling and the order in
\* which the workers take tickets and the filename mutex: every worker of
\* the batch finishes, those that run beside a failed one included.
C24_Returns ==
    /\ []((call.fn = "DownloadFilesSimultaneously" /\ phase = "done") =>
             \A j \in 1..N : Finished(j))
    /\ (phase = "sim") ~> (phase = "done")
\* under a ceiling of one, the first worker failed and the second succeeded
C24_Witness ==
    /\ call.fn = "DownloadFilesSimultaneously"
    /\ phase = "done"
    /\ maxConcurrent = 1
    /\ N = 2
    /\ outcome[1] \notin {"ok", "none"}
    /\ outcome[2] = "ok"

\* C25: a worker of DownloadFilesSimultaneously sends at most one error, so
\* the channel, made with room for one error of every job, has room
\* whenever a worker comes to a send and no send waits; the channel is
\* closed when every worker has finished, and nothing is sent after that.
SentBy(j) == {k \in 1..Len(errorChan) : errorChan[k].job = j}
MaySend(j) == pc[j] \in {"request", "create", "report"}
C25_ErrorChannel ==
    /\ [](call.fn = "DownloadFilesSimultaneously" =>
            /\ \A j \in Jobs : Cardinality(SentBy(j)) <= 1
            /\ \A j \in Jobs : SentBy(j) # {} => pc[j] \in {"exit", "done"}
            /\ (\E j \in Jobs : MaySend(j)) => Len(errorChan) < N
            /\ phase = "done" => \A j \in 1..N : Finished(j))
    /\ [][errorChan' # errorChan =>
            /\ phase = "sim" /\ phase' = "sim"
            /\ Len(errorChan') = Len(errorChan) + 1
            /\ SubSeq(errorChan', 1, Len(errorChan)) = errorChan]_vars
\* one worker has sent its error and finished, the other comes to its send
C25_Witness ==
    /\ phase = "sim"
    /\ Len(errorChan) = 1
    /\ \E j, k \in Jobs : /\ pc[j] = "done" /\ SentBy(j) # {}
                          /\ pc[k] = "report"

\* the least positive k for which name.k is not in directory d
LeastFree(d, name) ==
    CHOOSE k \in 1..(Cardinality(DOMAIN d) + 1) :
        /\ SuffixName(name, k) \notin DOMAIN d
        /\ \A i \in 1..(k - 1) : SuffixName(name, i) \in DOMAIN d
\* C26: in concurrent mode a worker chooses its filename while it holds the
\* filename mutex.  With overwrite enabled it is the derived name.  With
\* overwrite disabled it is the derived name if no such file exists when
\* the worker looks, and otherwise the derived name with the suffix .k,
\* where the worker has looked for .1, .2, ... in turn, has found every one
\* before .k and has not found .k; the name is not changed afterwards.  A
\* worker alone in its batch ends with the least free suffix of the
\* directory the batch found.
Selecting(j) == pc[j] \in {"stat", "probe", "unlock"}
C26_FilenameChosen ==
    /\ [](call.fn = "DownloadFilesSimultaneously" =>
            \A j \in 1..N :
               /\ Selecting(j) => mu = j
               /\ (Named(j) /\ allowOverwriteFiles) =>
                      filename[j] = Base(urls[j])
               /\ (Named(j) /\ ~allowOverwriteFiles /\ N = 1) =>
                      filename[j] =
                         IF Base(urls[j]) \notin DOMAIN before.dir
                         THEN Base(urls[j])
                         ELSE SuffixName(Base(urls[j]),
                                         LeastFree(before.dir, Base(urls[j]))))
    /\ [][call.fn = "DownloadFilesSimultaneously" =>
            \A j \in 1..N :
               /\ (pc[j] = "stat" /\ pc'[j] = "unlock") =>
                      /\ ~Exists(Base(urls[j]))
                      /\ filename'[j] = Base(urls[j])
               /\ (pc[j] = "stat" /\ pc'[j] = "probe") =>
                      /\ Exists(Base(urls[j]))
                      /\ ~allowOverwriteFiles
                      /\ probe'[j] = 1
               /\ (pc[j] = "probe" /\ pc'[j] = "probe" /\ probe'[j] # probe[j]) =>
                      /\ Exists(SuffixName(Base(urls[j]), probe[j]))
                      /\ probe'[j] = probe[j] + 1
               /\ (pc[j] = "probe" /\ pc'[j] = "unlock") =>
                      /\ ~Exists(SuffixName(Base(urls[j]), probe[j]))
                      /\ filename'[j] = SuffixName(Base(urls[j]), probe[j])
               /\ (Named(j) \/ pc[j] = "unlock") => filename'[j] = filename[j]]_vars
\* both the derived name and its first suffix are taken
C26_Witness ==
    \E j \in Jobs :
        /\ call.fn = "DownloadFilesSimultaneously"
        /\ ~allowOverwriteFiles
        /\ Named(j)
        /\ Base(urls[j]) = "f"
        /\ filename[j] = "f.2"

\* C27: in a concurrent batch with overwrite disabled every file the batch
\* found in the directory keeps its name, its identity and its contents: no
\* worker creates it anew, truncates it, writes to it or removes it, in any
\* interleaving, workers that fail and remove their own file included.
C27_ExistingFilesKept ==
    (call.fn = "DownloadFilesSimultaneously" /\ ~allowOverwriteFiles) =>
        \A name \in DOMAIN before.dir :
            /\ name \in DOMAIN dir
            /\ dir[name] = before.dir[name]
            /\ disk[dir[name]] = before.disk[before.dir[name]]
            /\ \A j \in Jobs : fh[j] # dir[name]
\* a worker whose derived name was taken has failed in its write and has
\* removed its file
C27_Witness ==
    \E j \in 1..N :
        /\ call.fn = "DownloadFilesSimultaneously"
        /\ ~allowOverwriteFiles
        /\ Base(urls[j]) \in DOMAIN before.dir
        /\ outcome[j] = "write"
        /\ pc[j] = "done"

\* C28: the request timeout, the concurrency ceiling and the overwrite flag
\* are changed by SetTimeout, SetMaxConcurrent and SetOverwriteFiles alone,
\* each changing its own value: no step of DownloadFiles, of
\* DownloadFilesSimultaneously, of DownloadFile or of a worker changes any
\* of them, so they are after a batch what they were before it.
Config == <<defaultTimeout, maxConcurrentDownloads, allowOverwriteFiles>>
C28_ConfigReadOnly ==
    [][/\ (phase # "config" \/ phase' # "config") => Config' = Config
       /\ defaultTimeout' # defaultTimeout =>
             call' = [fn |-> "SetTimeout", timeout |-> defaultTimeout']
       /\ maxConcurrentDownloads' # maxConcurrentDownloads =>
             call' = [fn |-> "SetMaxConcurrent", max |-> maxConcurrentDownloads']
       /\ allowOverwriteFiles' # allowOverwriteFiles =>
             call' = [fn |-> "SetOverwriteFiles",
                      overwrite |-> allowOverwriteFiles']]_vars
\* a batch of two has returned under a configuration that is not the default
C28_Witness ==
    /\ phase = "done"
    /\ N = 2
    /\ Config = <<2 * DefaultTimeout, 2, TRUE>>
    /\ \A j \in 1..N : Finished(j)

\* the last segment of the path of a URL
LastSegment(url) ==
    LET parts == Split(Parse(url).path)
    IN  Concat(parts[Len(parts)])
\* C29: the file a job writes is named after the last segment of the path
\* of its URL (with a numeric suffix in concurrent mode when that name is
\* taken), and when that segment is empty some other name stands in for it:
\* a job never has a file open whose name is the URL's host, "." or "/".
C29_FallbackName ==
    \A j \in 1..N :
        fh[j] # 0 =>
            /\ LastSegment(urls[j]) # "" =>
                  filename[j] \in {LastSegment(urls[j])} \cup
                      {SuffixName(LastSegment(urls[j]), k) : k \in 1..3}
            /\ filename[j] \notin {Parse(urls[j]).host, ".", "/"}

\* the hrefs of the anchors of a tree, in document order
RECURSIVE HrefSeq(_)
RECURSIVE HrefSeqKids(_)
HrefSeq(n) ==
    (IF n.type = "element" /\ n.data = "a"
     THEN LET own == SelectSeq(n.attr, LAMBDA a : a.key = "href")
          IN  [i \in 1..Len(own) |-> own[i].val]
     ELSE <<>>)
    \o HrefSeqKids(n.kids)
HrefSeqKids(kids) ==
    IF kids = <<>> THEN <<>> ELSE HrefSeq(Head(kids)) \o HrefSeqKids(Tail(kids))
\* the accepted resolved URLs of a tree, in document order
AcceptedSeq(doc, baseURL) ==
    LET wellFormed == SelectSeq(HrefSeq(doc), LAMBDA h : Parse(h).ok)
        resolved == [i \in 1..Len(wellFormed) |-> Resolved(wellFormed[i], baseURL)]
    IN  SelectSeq(resolved, LAMBDA str : ~Skipped(str))
\* a list from its element i on, without the elements that occur before
RECURSIVE FirstFrom(_, _)
FirstFrom(list, i) ==
    IF i > Len(list) THEN <<>>
    ELSE (IF \E j \in 1..(i - 1) : list[j] = list[i] THEN <<>> ELSE <<list[i]>>)
         \o FirstFrom(list, i + 1)
FirstOccurrences(list) == FirstFrom(list, 1)
\* C30: extractLinksFromHTML returns the accepted resolved URLs of the
\* document in document order, each at the place of its first occurrence and
\* no later occurrence kept; removeDuplicateLinks returns the first
\* occurrences of its input in input order, returns an input without
\* duplicates as it is, and applied to its own result returns that result.
C30_FirstOccurrenceOrder ==
    /\ call.fn = "extractLinksFromHTML" =>
          ret.links = FirstOccurrences(AcceptedSeq(call.doc, call.baseURL))
    /\ call.fn = "removeDuplicateLinks" =>
          /\ ret.links = FirstOccurrences(call.links)
          /\ NoDuplicates(call.links) => ret.links = call.links
          /\ removeDuplicateLinks(ret.links) = ret.links
\* a document whose first link comes back after another one
C30_Witness ==
    /\ call.fn = "extractLinksFromHTML"
    /\ call.baseURL = Parse(ExampleCom)
    /\ HrefSeq(call.doc) = <<Page1, Page1Slash, Page1>>
    /\ ret.links = <<Page1, Page1Slash>>
\* a list whose first link comes back after another one
C30_ListCase ==
    /\ call.fn = "removeDuplicateLinks"
    /\ call.links = <<Page1, Page2, Page1>>
    /\ ret.links = <<Page1, Page2>>
====
